---- MODULE Spec2Model ----
(***************************************************************************)
(* Model of the MText editor: the serializer (src/src/modelConverter.ts),   *)
(* the parser (src/src/htmlConverter.ts), the node type (src/src/types.ts)  *)
(* the page's event handlers (src/src/main.ts) and the renderer they call, *)
(* MTextRenderer, as src/README.md lists it.                               *)
(*                                                                         *)
(* A JavaScript string is a sequence of one-character strings, so that     *)
(* escaping, prefixes and separators are checked character by character.   *)
(* An optional field is None (absent / undefined) or Some(v).              *)
(* Numbers are integers, and NaN; fractional values are not modelled.      *)
(***************************************************************************)
EXTENDS Integers, Sequences, FiniteSets, TLC

VARIABLES
  nodes,        \* the node forest handed to convert
  mtext,        \* the string returned by the latest convert call
  calls,        \* number of convert calls made so far
  returned,     \* history of the convert calls: forest, string, forest after
  node,         \* nodeToMText call under observation: its node argument
  listContext,  \* ... its listContext argument
  result,       \* ... what it returned (string and the shared olCounter after)
  parent,       \* ... the node whose children are being mapped (None at top)
  index,        \* ... position of node among the parent's children
  paragraph,    \* argument of the paragraphCommand call under observation
  cmd,          \* ... the command string it returned
  content,      \* the editor's content: the child nodes of the parsed body
  domNode,      \* parseNode call under observation: its node argument
  format,       \* ... its format argument
  parsed,       \* ... the nodes it returned
  ancestors,    \* ... the DOM elements that enclose domNode, outermost first
  showTextBox,  \* main.ts: let showTextBox
  rendered,     \* the renderMText calls made so far, oldest first
  scene,        \* MTextRenderer: the objects of this.scene
  currentMText, \* ... this.currentMText, as the number of the call that made it
  textBoxLines, \* ... this.textBoxLines
  renderCalls,  \* ... where each renderMText call stands, oldest first
  frames        \* the callbacks handed to requestAnimationFrame, not yet run

convVars == <<nodes, mtext, calls, returned>>
walkVars == <<node, listContext, result, parent, index>>
paragraphVars == <<paragraph, cmd>>
parseVars == <<content, domNode, format, parsed, ancestors>>
pageVars == <<showTextBox, rendered>>
rendererVars == <<scene, currentMText, textBoxLines, renderCalls, frames>>

vars == <<nodes, mtext, calls, returned, node, listContext, result, parent,
          index, paragraph, cmd, content, domNode, format, parsed, ancestors,
          showTextBox, rendered, scene, currentMText, textBoxLines,
          renderCalls, frames>>

----------------------------------------------------------------------------
(* Bounds *)

MaxNum == 2          \* numeric field values range over 0..MaxNum
MaxTabs == 2         \* longest tab-stop list
MaxTextLen == 3      \* longest text of a plain text leaf
MaxKids == 2         \* most children of a list container
MaxCalls == 3        \* most convert calls in one behaviour
MaxEvents == 3       \* most Change and checkbox events in one behaviour
MaxRenders == 2      \* most renderMText calls while loads and frames are pending

----------------------------------------------------------------------------
(* Optional values and JavaScript truthiness *)

None == <<>>
Some(v) == <<v>>

\* NaN, the number that parseFloat returns for a text that is no number; it
\* is kept apart from the numbers the inputs can produce.
NaN == 0 - 1000000000

TruthyBool(opt) == opt # None /\ opt[1] = TRUE
TruthyNum(opt) == opt # None /\ opt[1] # 0 /\ opt[1] # NaN
TruthyStr(opt) == opt # None /\ opt[1] # <<>>

----------------------------------------------------------------------------
(* Strings *)

RECURSIVE Concat(_)
Concat(ss) == IF ss = <<>> THEN <<>> ELSE Head(ss) \o Concat(Tail(ss))

Digit(d) == CASE d = 0 -> "0" [] d = 1 -> "1" [] d = 2 -> "2" [] d = 3 -> "3"
              [] d = 4 -> "4" [] d = 5 -> "5" [] d = 6 -> "6" [] d = 7 -> "7"
              [] d = 8 -> "8" [] d = 9 -> "9"

RECURSIVE NatToStr(_)
NatToStr(n) == IF n < 10 THEN <<Digit(n)>>
               ELSE NatToStr(n \div 10) \o <<Digit(n % 10)>>

\* `${n}` for an integer n, or NaN
NumToStr(n) == IF n = NaN THEN <<"N", "a", "N">>
               ELSE IF n < 0 THEN <<"-">> \o NatToStr(0 - n) ELSE NatToStr(n)

\* '  '.repeat(n)
RECURSIVE Repeat(_, _)
Repeat(s, n) == IF n <= 0 THEN <<>> ELSE s \o Repeat(s, n - 1)

\* nums.join(',')
RECURSIVE JoinNums(_)
JoinNums(nums) ==
  IF nums = <<>> THEN <<>>
  ELSE IF Len(nums) = 1 THEN NumToStr(nums[1])
  ELSE NumToStr(nums[1]) \o <<",">> \o JoinNums(Tail(nums))

\* pat is a sequence of character sets (a regular expression without
\* repetition); does it match text at position i?
MatchAt(text, pat, i) ==
  /\ i + Len(pat) - 1 <= Len(text)
  /\ \A j \in 1..Len(pat) : text[i + j - 1] \in pat[j]

\* text.replace(/pat/g, rep): leftmost, non-overlapping, single pass
RECURSIVE ReplaceFrom(_, _, _, _)
ReplaceFrom(text, pat, rep, i) ==
  IF i > Len(text) THEN <<>>
  ELSE IF MatchAt(text, pat, i)
       THEN rep \o ReplaceFrom(text, pat, rep, i + Len(pat))
       ELSE <<text[i]>> \o ReplaceFrom(text, pat, rep, i + 1)

ReplaceAll(text, pat, rep) == ReplaceFrom(text, pat, rep, 1)

----------------------------------------------------------------------------
(* types.ts *)

\* A TinyMceNode with every optional field absent.
Node(type) ==
  [type |-> type, text |-> None, children |-> None,
   bold |-> None, italic |-> None, underline |-> None, overline |-> None,
   strikethrough |-> None, subscript |-> None, superscript |-> None,
   color |-> None, rgbColor |-> None, font |-> None,
   fontBold |-> None, fontItalic |-> None,
   height |-> None, width |-> None, tracking |-> None, slant |-> None,
   stack |-> None, paragraph |-> None]

\* The character-formatting fields of a node.
FormatFields ==
  {"bold", "italic", "underline", "overline", "strikethrough", "subscript",
   "superscript", "color", "rgbColor", "font", "fontBold", "fontItalic",
   "height", "width", "tracking", "slant"}

\* n with the formatting fields of f.
WithFormat(n, f) ==
  [n EXCEPT !.bold = f.bold, !.italic = f.italic, !.underline = f.underline,
            !.overline = f.overline, !.strikethrough = f.strikethrough,
            !.subscript = f.subscript, !.superscript = f.superscript,
            !.color = f.color, !.rgbColor = f.rgbColor, !.font = f.font,
            !.fontBold = f.fontBold, !.fontItalic = f.fontItalic,
            !.height = f.height, !.width = f.width, !.tracking = f.tracking,
            !.slant = f.slant]

NoFormat == [f \in FormatFields |-> None]

\* ParagraphProperties.  order lists the keys that are set, in the order in
\* which they were set on the object (JavaScript keeps insertion order).
AlignValues == {"left", "right", "center", "justified", "distributed"}

----------------------------------------------------------------------------
(* modelConverter.ts: paragraphCommand *)

AlignMap(align) ==
  CASE align = "left" -> <<"q", "l">>
    [] align = "right" -> <<"q", "r">>
    [] align = "center" -> <<"q", "c">>
    [] align = "justified" -> <<"q", "j">>
    [] align = "distributed" -> <<"q", "d">>
    [] OTHER -> <<"q", "l">>

\* if (cmd.endsWith(',')) cmd = cmd.slice(0, -1)
DropTrailingComma(c) ==
  IF c # <<>> /\ c[Len(c)] = "," THEN SubSeq(c, 1, Len(c) - 1) ELSE c

\* The field emitted for one key, with its trailing comma as the code adds it.
ParagraphField(p, key) ==
  CASE key = "indent" ->
         IF p.indent # None
         THEN <<"i">> \o NumToStr(p.indent[1]) \o <<",">> ELSE <<>>
    [] key = "left" ->
         IF p.left # None
         THEN <<"l">> \o NumToStr(p.left[1]) \o <<",">> ELSE <<>>
    [] key = "right" ->
         IF p.right # None
         THEN <<"r">> \o NumToStr(p.right[1]) \o <<",">> ELSE <<>>
    [] key = "align" ->
         IF p.align # None /\ p.align[1] # ""
         THEN AlignMap(p.align[1]) \o <<",">> ELSE <<"q", "l">>
    [] key = "tabs" ->
         IF p.tabs # None /\ Len(p.tabs[1]) > 0
         THEN <<"t">> \o JoinNums(p.tabs[1]) \o <<",">> ELSE <<>>

\* Mutant: the fields are emitted in the order the keys were set.
ParagraphCommandInKeyOrder(p) ==
  LET RECURSIVE Emit(_)
      Emit(keys) == IF keys = <<>> THEN <<>>
                    ELSE ParagraphField(p, Head(keys)) \o Emit(Tail(keys))
      q == IF p.align = None THEN <<"q", "l">> ELSE <<>>
  IN DropTrailingComma(<<"\\", "p">> \o Emit(p.order) \o q) \o <<";">>

ParagraphCommand(p) ==
  DropTrailingComma(<<"\\", "p">>
                    \o ParagraphField(p, "indent")
                    \o ParagraphField(p, "left")
                    \o ParagraphField(p, "right")
                    \o ParagraphField(p, "align")
                    \o ParagraphField(p, "tabs")) \o <<";">>

----------------------------------------------------------------------------
(* modelConverter.ts: encodeMText *)

\* Mutant: the percent sequences are matched with a lower-case letter only.
EncodeMTextLowerCaseOnly(text) ==
  LET t1 == ReplaceAll(text, <<{"^"}, {"I"}>>, <<"\\", "t">>)
      t2 == ReplaceAll(t1, <<{"^"}, {"J"}>>, <<"\\", "P">>)
      t3 == ReplaceAll(t2, <<{"^"}, {"M"}>>, <<>>)
      t4 == ReplaceAll(t3, <<{"^"}, {" "}>>, <<"^">>)
      t5 == ReplaceAll(t4, <<{"%"}, {"%"}, {"c"}>>, <<"Ø">>)
      t6 == ReplaceAll(t5, <<{"%"}, {"%"}, {"d"}>>, <<"°">>)
      t7 == ReplaceAll(t6, <<{"%"}, {"%"}, {"p"}>>, <<"±">>)
  IN t7

EncodeMText(text) ==
  LET t1 == ReplaceAll(text, <<{"^"}, {"I"}>>, <<"\\", "t">>)
      t2 == ReplaceAll(t1, <<{"^"}, {"J"}>>, <<"\\", "P">>)
      t3 == ReplaceAll(t2, <<{"^"}, {"M"}>>, <<>>)
      t4 == ReplaceAll(t3, <<{"^"}, {" "}>>, <<"^">>)
      t5 == ReplaceAll(t4, <<{"%"}, {"%"}, {"c", "C"}>>, <<"Ø">>)
      t6 == ReplaceAll(t5, <<{"%"}, {"%"}, {"d", "D"}>>, <<"°">>)
      t7 == ReplaceAll(t6, <<{"%"}, {"%"}, {"p", "P"}>>, <<"±">>)
  IN t7

----------------------------------------------------------------------------
(* modelConverter.ts: fontCommand, applyFormatting, stackCommand *)

Arial == <<"A", "r", "i", "a", "l">>

\* fontBold ?? bold, fontItalic ?? italic
Coalesce(a, b) == IF a # None THEN a ELSE b

FontCommand(n) ==
  LET family == IF n.font # None THEN n.font[1] ELSE Arial
      bold == IF TruthyBool(Coalesce(n.fontBold, n.bold))
              THEN <<"b", "1">> ELSE <<"b", "0">>
      italic == IF TruthyBool(Coalesce(n.fontItalic, n.italic))
                THEN <<"i", "1">> ELSE <<"i", "0">>
  IN family \o <<"|">> \o bold \o <<"|">> \o italic

\* Mutant: the font token is written only when a font family is set.
FontConditionFamilyOnly(n) == TruthyStr(n.font)

\* node.font ?? node.bold ?? node.italic, taken as a condition
FontCondition(n) ==
  IF n.font # None THEN TruthyStr(n.font)
  ELSE IF n.bold # None THEN TruthyBool(n.bold)
  ELSE TruthyBool(n.italic)

RgbMask == 16777216     \* rgbColor & 0xffffff keeps the value modulo 2^24

\* The prefix codes of a text leaf, in the order the code appends them.
FormatCodes(n) ==
     (IF TruthyBool(n.underline) THEN <<"\\", "L">> ELSE <<>>)
  \o (IF TruthyBool(n.overline) THEN <<"\\", "O">> ELSE <<>>)
  \o (IF TruthyBool(n.strikethrough) THEN <<"\\", "K">> ELSE <<>>)
  \o (IF TruthyNum(n.color)
      THEN <<"\\", "C">> \o NumToStr(n.color[1]) \o <<";">> ELSE <<>>)
  \o (IF TruthyNum(n.rgbColor)
      THEN <<"\\", "c">> \o NumToStr(n.rgbColor[1] % RgbMask) \o <<";">>
      ELSE <<>>)
  \o (IF TruthyNum(n.height)
      THEN <<"\\", "H">> \o NumToStr(n.height[1]) \o <<";">> ELSE <<>>)
  \o (IF TruthyNum(n.width)
      THEN <<"\\", "W">> \o NumToStr(n.width[1]) \o <<";">> ELSE <<>>)
  \o (IF TruthyNum(n.tracking)
      THEN <<"\\", "T">> \o NumToStr(n.tracking[1]) \o <<"x", ";">>
      ELSE <<>>)
  \o (IF TruthyNum(n.slant)
      THEN <<"\\", "Q">> \o NumToStr(n.slant[1]) \o <<";">> ELSE <<>>)
  \o (IF FontCondition(n)
      THEN <<"\\", "f">> \o FontCommand(n) \o <<";">> ELSE <<>>)

\* The text after the superscript / subscript wrappers.
ScriptText(text, n) ==
  LET sup == IF TruthyBool(n.superscript)
             THEN <<"\\", "S">> \o text \o <<"^", " ", ";">> ELSE text
  IN IF TruthyBool(n.subscript)
     THEN <<"\\", "S", "^", " ">> \o sup \o <<";">> ELSE sup

\* Mutant: the text is always wrapped in a brace group.
ApplyFormattingAlwaysBraces(text, n) ==
  <<"{">> \o FormatCodes(n) \o ScriptText(text, n) \o <<"}">>

ApplyFormatting(text, n) ==
  LET codes == FormatCodes(n)
      body == ScriptText(text, n)
  IN IF codes # <<>> THEN <<"{">> \o codes \o body \o <<"}">> ELSE body

\* Mutant: the caret divider is used as it is, without the space.
StackCommandNoSpace(numerator, denominator, divider) ==
  LET d0 == IF divider = None THEN <<"^">> ELSE divider[1]
  IN <<"\\", "S">> \o numerator \o d0 \o denominator \o <<";">>

StackCommand(numerator, denominator, divider) ==
  LET d0 == IF divider = None THEN <<"^">> ELSE divider[1]
      d == IF d0 = <<"^">> THEN <<"^", " ">> ELSE d0
  IN <<"\\", "S">> \o numerator \o d \o denominator \o <<";">>

----------------------------------------------------------------------------
(* modelConverter.ts: nodeToMText, convert *)

\* The olCounter array.  An index that was never written reads as undefined;
\* it is kept as 0, which `olCounter[i] || 1` treats the same way.
ArrayGet(arr, i) == IF i >= 1 /\ i <= Len(arr) THEN arr[i] ELSE 0

ArraySet(arr, i, v) ==
  IF i <= Len(arr) THEN [arr EXCEPT ![i] = v]
  ELSE arr \o [j \in 1..(i - Len(arr)) |-> IF j = i - Len(arr) THEN v ELSE 0]

OlCounterOf(ctx) == IF ctx = None THEN <<>> ELSE ctx[1].olCounter

\* (listContext?.depth ?? 0) + 1
NewDepth(ctx) == (IF ctx = None THEN 0 ELSE ctx[1].depth) + 1

\* The olCounter a list container hands to its children: a copy of the
\* inherited array, extended by 1 for an ordered list.
NewOlCounter(type, ctx) ==
  LET copy == OlCounterOf(ctx)
  IN IF type = "ol" /\ Len(copy) < NewDepth(ctx) THEN Append(copy, 1)
     ELSE copy

\* Mutant: the list container works on the inherited array itself.
CounterAfterListShared(before, inner) == inner

\* The inherited array after a list container was serialized: the container
\* worked on a copy ([...listContext.olCounter]), so it is as before.
CounterAfterList(before, inner) == before

\* Mutant: the counter is read one slot too far.
LiNumberNextSlot(ctx) ==
  LET n == ArrayGet(ctx.olCounter, ctx.depth + 1) IN IF n = 0 THEN 1 ELSE n

\* listContext.olCounter[listContext.depth - 1] || 1
LiNumber(ctx) ==
  LET n == ArrayGet(ctx.olCounter, ctx.depth) IN IF n = 0 THEN 1 ELSE n

\* Mutant: two spaces for every depth, the first included.
LiIndentFromZero(ctx) == Repeat(<<" ", " ">>, ctx.depth)

\* '  '.repeat(listContext.depth - 1)
LiIndent(ctx) == Repeat(<<" ", " ">>, ctx.depth - 1)

\* Mutant: the list context of the call observed last is reused.
ConvertListContextKept == listContext

\* convert calls nodeToMText(node) without a listContext.
ConvertListContext == None

\* The context a list container passes to its children.
ListChildContext(n, ctx) ==
  Some([type |-> n.type, depth |-> NewDepth(ctx),
        olCounter |-> NewOlCounter(n.type, ctx)])

\* Mutant: a list item is serialized as an item even when stack is set.
StackBranchUnlessLi(n) == n.stack # None /\ n.type # "li"

\* if (node.stack) { ...; return mtext; }
StackBranch(n) == n.stack # None

\* Mutant: any node that has text is serialized as a text leaf.
TextBranchAnyType(n) == TruthyStr(n.text)

\* if (node.type === 'text' && node.text)
TextBranch(n) == n.type = "text" /\ TruthyStr(n.text)

\* Mutant: a br among the children of a list is serialized as an item.
ItemBranchOrBr(n, ctx) == n.type = "li" \/ (n.type = "br" /\ ctx # None)

\* else if (node.type === 'li')
ItemBranch(n, ctx) == n.type = "li"

RECURSIVE NodeToMText(_, _)
RECURSIVE MapChildren(_, _)

\* children.map(child => this.nodeToMText(child, ctx)).join(''), where every
\* call receives the same olCounter array: s is the joined string, oc the
\* array after the last call.
MapChildren(children, ctx) ==
  IF children = <<>> THEN [s |-> <<>>, oc |-> OlCounterOf(ctx)]
  ELSE LET r1 == NodeToMText(Head(children), ctx)
           ctx2 == IF ctx = None THEN None
                   ELSE Some([ctx[1] EXCEPT !.olCounter = r1.oc])
           r2 == MapChildren(Tail(children), ctx2)
       IN [s |-> r1.s \o r2.s, oc |-> r2.oc]

\* s: the returned string; oc: listContext.olCounter after the call.
NodeToMText(n, ctx) ==
  LET pcmd == IF n.paragraph # None THEN ParagraphCommand(n.paragraph[1])
              ELSE <<>>
      before == OlCounterOf(ctx)
  IN IF StackBranch(n)
     THEN [s |-> pcmd \o StackCommand(n.stack[1].numerator,
                                      n.stack[1].denominator,
                                      n.stack[1].divider),
           oc |-> before]
     ELSE IF TextBranch(n)
     THEN [s |-> pcmd \o ApplyFormatting(EncodeMText(n.text[1]), n),
           oc |-> before]
     ELSE IF n.type \in {"ul", "ol"}
     THEN LET child == ListChildContext(n, ctx)
              r == IF n.children # None THEN MapChildren(n.children[1], child)
                   ELSE [s |-> <<>>, oc |-> OlCounterOf(child)]
          IN [s |-> pcmd \o r.s, oc |-> CounterAfterList(before, r.oc)]
     ELSE IF ItemBranch(n, ctx)
     THEN LET indent == IF ctx # None THEN LiIndent(ctx[1]) ELSE <<>>
              prefix == IF ctx = None THEN <<>>
                        ELSE IF ctx[1].type = "ul" THEN <<"*", " ">>
                        ELSE IF ctx[1].type = "ol"
                        THEN NumToStr(LiNumber(ctx[1])) \o <<".", " ">>
                        ELSE <<>>
              after == IF ctx # None /\ ctx[1].type = "ol"
                       THEN ArraySet(before, ctx[1].depth,
                                     LiNumber(ctx[1]) + 1)
                       ELSE before
              itemContent == IF n.children # None
                             THEN MapChildren(n.children[1], None).s
                             ELSE <<>>
          IN [s |-> pcmd \o <<"\\", "P">> \o indent \o prefix \o itemContent,
              oc |-> after]
     ELSE IF n.children # None
     THEN [s |-> pcmd \o MapChildren(n.children[1], None).s
                 \o (IF n.type = "paragraph" THEN <<"\\", "P">> ELSE <<>>),
           oc |-> before]
     ELSE [s |-> pcmd, oc |-> before]

\* nodes.map(node => this.nodeToMText(node)).join('')
RECURSIVE Convert(_)
Convert(ns) ==
  IF ns = <<>> THEN <<>>
  ELSE NodeToMText(Head(ns), ConvertListContext).s \o Convert(Tail(ns))

----------------------------------------------------------------------------
(* htmlConverter.ts: strings and numbers *)

\* The characters of a string literal.
Chars(str) == [i \in 1..Len(str) |-> SubSeq(str, i, i)]

StartsWith(s, p) == Len(p) <= Len(s) /\ SubSeq(s, 1, Len(p)) = p
EndsWith(s, p) == Len(p) <= Len(s) /\ SubSeq(s, Len(s) - Len(p) + 1, Len(s)) = p
Includes(s, sub) ==
  \E i \in 1..(Len(s) - Len(sub) + 1) : SubSeq(s, i, i + Len(sub) - 1) = sub

IsSpace(ch) == ch \in {" ", "\t", "\n"}
IsDigit(ch) == ch \in {"0", "1", "2", "3", "4", "5", "6", "7", "8", "9"}
DigitValue(ch) == CHOOSE d \in 0..9 : Digit(d) = ch

UpperCase == "ABCDEFGHIJKLMNOPQRSTUVWXYZ"
LowerCase == "abcdefghijklmnopqrstuvwxyz"

ToLowerChar(ch) ==
  IF \E i \in 1..26 : SubSeq(UpperCase, i, i) = ch
  THEN LET i == CHOOSE i \in 1..26 : SubSeq(UpperCase, i, i) = ch
       IN SubSeq(LowerCase, i, i)
  ELSE ch

\* s.toLowerCase()
ToLowerCase(s) == [i \in 1..Len(s) |-> ToLowerChar(s[i])]

\* The first position from i on that holds no white space.
RECURSIVE SkipSpaces(_, _)
SkipSpaces(s, i) ==
  IF i <= Len(s) /\ IsSpace(s[i]) THEN SkipSpaces(s, i + 1) ELSE i

\* The last position up to i that holds no white space.
RECURSIVE SkipSpacesBack(_, _)
SkipSpacesBack(s, i) ==
  IF i >= 1 /\ IsSpace(s[i]) THEN SkipSpacesBack(s, i - 1) ELSE i

\* s.trim()
Trim(s) == SubSeq(s, SkipSpaces(s, 1), SkipSpacesBack(s, Len(s)))

\* The end of the run of digits that starts at i (i - 1 when there is none).
RECURSIVE DigitsEnd(_, _)
DigitsEnd(s, i) ==
  IF i <= Len(s) /\ IsDigit(s[i]) THEN DigitsEnd(s, i + 1) ELSE i - 1

RECURSIVE DigitsValue(_)
DigitsValue(ds) ==
  IF ds = <<>> THEN 0
  ELSE 10 * DigitsValue(SubSeq(ds, 1, Len(ds) - 1)) + DigitValue(ds[Len(ds)])

\* parseFloat(s): white space, a sign, then the digits it can read; NaN when
\* there is no digit.  Fractions and exponents are not among the inputs.
ParseFloat(s) ==
  LET i == SkipSpaces(s, 1)
      signed == i <= Len(s) /\ s[i] \in {"-", "+"}
      j == IF signed THEN i + 1 ELSE i
      k == DigitsEnd(s, j)
      n == DigitsValue(SubSeq(s, j, k))
  IN IF k < j THEN NaN
     ELSE IF signed /\ s[i] = "-" THEN 0 - n ELSE n

\* a / b and a * 1.33 on numbers; NaN stays NaN.  The inputs are such that
\* the results are whole numbers.
Divide(a, b) == IF a = NaN THEN NaN ELSE a \div b
Times133(a) == IF a = NaN THEN NaN ELSE (a * 133) \div 100

\* parseCssValue: null is None.
ParseCssValue(value) ==
  IF value = <<>> THEN None
  ELSE LET trimmedValue == Trim(value)
       IN IF EndsWith(trimmedValue, <<"e", "m">>)
          THEN Some(ParseFloat(trimmedValue))
          ELSE IF EndsWith(trimmedValue, <<"p", "x">>)
          THEN Some(Divide(ParseFloat(trimmedValue), 16))
          ELSE IF EndsWith(trimmedValue, <<"p", "t">>)
          THEN Some(Divide(Times133(ParseFloat(trimmedValue)), 16))
          ELSE LET numValue == ParseFloat(trimmedValue)
               IN IF numValue # NaN THEN Some(numValue) ELSE None

\* Where the value of `name\s*:\s*` starts when the pattern matches at i
\* (case-insensitive); 0 when it does not match there.
ValueStartAt(s, name, i) ==
  IF i + Len(name) - 1 <= Len(s)
     /\ ToLowerCase(SubSeq(s, i, i + Len(name) - 1)) = name
  THEN LET c == SkipSpaces(s, i + Len(name))
       IN IF c <= Len(s) /\ s[c] = ":" THEN SkipSpaces(s, c + 1) ELSE 0
  ELSE 0

\* The end of the run of characters other than stop that starts at i.
RECURSIVE RunEnd(_, _, _)
RunEnd(s, i, stop) ==
  IF i <= Len(s) /\ s[i] # stop THEN RunEnd(s, i + 1, stop) ELSE i - 1

\* What ([^;]+) captures after `name\s*:\s*` matched at i, None when the
\* pattern does not match at i.  When only white space follows the colon,
\* the last white-space character is given back to the group.
CaptureAt(s, name, i) ==
  LET v == ValueStartAt(s, name, i)
  IN IF v = 0 THEN None
     ELSE IF v <= Len(s) /\ s[v] # ";" THEN Some(SubSeq(s, v, RunEnd(s, v, ";")))
     ELSE IF IsSpace(s[v - 1]) THEN Some(<<s[v - 1]>>)
     ELSE None

\* styleAttr.match(new RegExp(`${property}\\s*:\\s*([^;]+)`, 'i')): the
\* group of the leftmost match, None without match.
RECURSIVE MatchProperty(_, _, _)
MatchProperty(styleAttr, property, i) ==
  IF i > Len(styleAttr) THEN None
  ELSE IF CaptureAt(styleAttr, property, i) # None
  THEN CaptureAt(styleAttr, property, i)
  ELSE MatchProperty(styleAttr, property, i + 1)

ExtractCssProperty(styleAttr, property) ==
  LET match == MatchProperty(styleAttr, property, 1)
  IN IF match # None THEN ParseCssValue(match[1]) ELSE None

----------------------------------------------------------------------------
(* htmlConverter.ts: the DOM, as DOMParser hands it to the converter *)

\* el.style with no declaration: every property reads as the empty string.
NoStyle ==
  [textAlign |-> <<>>, textIndent |-> <<>>, marginLeft |-> <<>>,
   marginRight |-> <<>>, letterSpacing |-> <<>>, color |-> <<>>,
   fontFamily |-> <<>>, textDecoration |-> <<>>, transform |-> <<>>]

\* A DOM node.  align and styleAttr are getAttribute('align') and
\* getAttribute('style'), None when the attribute is missing; style is the
\* browser's reading of the style attribute.
DomNode(nodeType, tagName) ==
  [nodeType |-> nodeType, tagName |-> tagName, textContent |-> <<>>,
   align |-> None, styleAttr |-> None, style |-> NoStyle,
   className |-> <<>>, childNodes |-> <<>>]

\* el.tagName.toLowerCase()
TagToLowerCase(tagName) ==
  CASE tagName = "B" -> "b" [] tagName = "STRONG" -> "strong"
    [] tagName = "I" -> "i" [] tagName = "EM" -> "em"
    [] tagName = "U" -> "u" [] tagName = "S" -> "s"
    [] tagName = "STRIKE" -> "strike" [] tagName = "DEL" -> "del"
    [] tagName = "SUB" -> "sub" [] tagName = "SUP" -> "sup"
    [] tagName = "SPAN" -> "span" [] tagName = "DIV" -> "div"
    [] tagName = "BR" -> "br" [] tagName = "P" -> "p"
    [] tagName = "OL" -> "ol" [] tagName = "UL" -> "ul"
    [] tagName = "LI" -> "li" [] tagName = "TEXT" -> "text"

----------------------------------------------------------------------------
(* htmlConverter.ts: extractFormatting *)

\* ToInt32 of the bitwise operators: NaN and undefined become 0; the other
\* numbers of the model are 32-bit integers already.
ToInt32(x) == IF x = NaN THEN 0 ELSE x

\* Bit by bit on two's complement numbers: 0 has no bit set, -1 has all.
RECURSIVE OrBits(_, _)
OrBits(a, b) ==
  IF a = 0 THEN b
  ELSE IF b = 0 THEN a
  ELSE IF a = 0 - 1 \/ b = 0 - 1 THEN 0 - 1
  ELSE 2 * OrBits(a \div 2, b \div 2)
       + (IF a % 2 = 1 \/ b % 2 = 1 THEN 1 ELSE 0)

\* a | b
BitOr(a, b) == OrBits(ToInt32(a), ToInt32(b))

\* a << k on 32 bits, 0 < k < 31: the low 32 - k bits move up, the highest
\* of them becomes the sign.
ShiftLeft(a, k) ==
  LET low == ToInt32(a) % (2 ^ (32 - k))
  IN IF low >= 2 ^ (31 - k) THEN (low - 2 ^ (32 - k)) * (2 ^ k)
     ELSE low * (2 ^ k)

\* color.match(/\d+/g)?.map(Number): the runs of digits, as numbers.
RECURSIVE DigitRuns(_, _)
DigitRuns(s, i) ==
  IF i > Len(s) THEN <<>>
  ELSE IF IsDigit(s[i])
  THEN <<DigitsValue(SubSeq(s, i, DigitsEnd(s, i)))>>
       \o DigitRuns(s, DigitsEnd(s, i) + 1)
  ELSE DigitRuns(s, i + 1)

HexDigits == "0123456789abcdef"
IsHexDigit(ch) == \E i \in 1..16 : SubSeq(HexDigits, i, i) = ToLowerChar(ch)
HexDigitValue(ch) ==
  (CHOOSE i \in 1..16 : SubSeq(HexDigits, i, i) = ToLowerChar(ch)) - 1

RECURSIVE HexEnd(_, _)
HexEnd(s, i) ==
  IF i <= Len(s) /\ IsHexDigit(s[i]) THEN HexEnd(s, i + 1) ELSE i - 1

RECURSIVE HexValue(_)
HexValue(ds) ==
  IF ds = <<>> THEN 0
  ELSE 16 * HexValue(SubSeq(ds, 1, Len(ds) - 1)) + HexDigitValue(ds[Len(ds)])

\* parseInt(s, 16): the hexadecimal digits s starts with, NaN without any.
ParseIntHex(s) ==
  IF HexEnd(s, 1) < 1 THEN NaN ELSE HexValue(SubSeq(s, 1, HexEnd(s, 1)))

\* Mutant: the channels of rgb(...) are packed in the order b, g, r.
ColorToRgbReversed(color) ==
  IF StartsWith(color, <<"r", "g", "b">>)
  THEN LET runs == DigitRuns(color, 1)
           rgb == IF runs = <<>> THEN <<0, 0, 0>> ELSE runs
           r == IF Len(rgb) >= 1 THEN rgb[1] ELSE NaN
           g == IF Len(rgb) >= 2 THEN rgb[2] ELSE NaN
           b == IF Len(rgb) >= 3 THEN rgb[3] ELSE NaN
       IN Some(BitOr(BitOr(ShiftLeft(b, 16), ShiftLeft(g, 8)), r))
  ELSE IF StartsWith(color, <<"#">>)
  THEN Some(ParseIntHex(SubSeq(color, 2, Len(color))))
  ELSE None

\* The rgbColor read from el.style.color; None when the notation is neither
\* rgb(...) nor #....
ColorToRgb(color) ==
  IF StartsWith(color, <<"r", "g", "b">>)
  THEN LET runs == DigitRuns(color, 1)
           rgb == IF runs = <<>> THEN <<0, 0, 0>> ELSE runs
           r == IF Len(rgb) >= 1 THEN rgb[1] ELSE NaN
           g == IF Len(rgb) >= 2 THEN rgb[2] ELSE NaN
           b == IF Len(rgb) >= 3 THEN rgb[3] ELSE NaN
       IN Some(BitOr(BitOr(ShiftLeft(r, 16), ShiftLeft(g, 8)), b))
  ELSE IF StartsWith(color, <<"#">>)
  THEN Some(ParseIntHex(SubSeq(color, 2, Len(color))))
  ELSE None

RECURSIVE WithoutQuotes(_)
WithoutQuotes(s) ==
  IF s = <<>> THEN <<>>
  ELSE (IF Head(s) \in {"'", "\""} THEN <<>> ELSE <<Head(s)>>)
       \o WithoutQuotes(Tail(s))

\* fontFamily.replace(/['"]/g, '').split(',')[0].trim()
CleanFont(fontFamily) ==
  LET bare == WithoutQuotes(fontFamily) IN Trim(SubSeq(bare, 1, RunEnd(bare, 1, ",")))

\* transform.match(/scaleX\(([^)]+)\)/): the group of the leftmost match.
RECURSIVE MatchScaleX(_, _)
MatchScaleX(transform, i) ==
  LET open == <<"s", "c", "a", "l", "e", "X", "(">>
      from == i + Len(open)
      to == RunEnd(transform, from, ")")
  IN IF i > Len(transform) THEN None
     ELSE IF /\ StartsWith(SubSeq(transform, i, Len(transform)), open)
             /\ to >= from
             /\ to < Len(transform)
     THEN Some(SubSeq(transform, from, to))
     ELSE MatchScaleX(transform, i + 1)

TrackingDefault == 10
WidthDefault == 1

\* !x for a number field that may be unset
Falsy(opt) == ~TruthyNum(opt)

\* thisFormat.tracking: from el.style.letterSpacing, else the default of
\* the class letterspacing.
ExtractTracking(el) ==
  LET inline == IF el.style.letterSpacing # <<>>
                THEN ParseCssValue(el.style.letterSpacing) ELSE None
  IN IF Includes(el.className, Chars("letterspacing")) /\ Falsy(inline)
     THEN Some(TrackingDefault)
     ELSE inline

\* thisFormat.width: from scaleX(...) in el.style.transform, else the
\* default of the class letterwidth.
ExtractWidth(el) ==
  LET scaleXMatch == IF el.style.transform # <<>>
                     THEN MatchScaleX(el.style.transform, 1) ELSE None
      inline == IF scaleXMatch # None /\ ParseFloat(scaleXMatch[1]) # NaN
                THEN Some(ParseFloat(scaleXMatch[1])) ELSE None
  IN IF Includes(el.className, Chars("letterwidth")) /\ Falsy(inline)
     THEN Some(WidthDefault)
     ELSE inline

\* The formatting an element sets by its tag, class and style.
ExtractFormatting(el) ==
  [NoFormat EXCEPT
     !["bold"] = IF el.tagName \in {"B", "STRONG"} THEN Some(TRUE) ELSE None,
     !["italic"] = IF el.tagName \in {"I", "EM"} THEN Some(TRUE) ELSE None,
     !["underline"] =
        IF el.tagName = "U"
           \/ Includes(el.style.textDecoration, Chars("underline"))
        THEN Some(TRUE) ELSE None,
     !["overline"] =
        IF Includes(el.style.textDecoration, Chars("overline"))
        THEN Some(TRUE) ELSE None,
     !["strikethrough"] =
        IF el.tagName \in {"S", "STRIKE", "DEL"}
           \/ Includes(el.style.textDecoration, Chars("line-through"))
        THEN Some(TRUE) ELSE None,
     !["subscript"] = IF el.tagName = "SUB" THEN Some(TRUE) ELSE None,
     !["superscript"] = IF el.tagName = "SUP" THEN Some(TRUE) ELSE None,
     !["rgbColor"] = IF el.style.color # <<>> THEN ColorToRgb(el.style.color)
                     ELSE None,
     !["font"] = IF el.style.fontFamily # <<>>
                 THEN Some(CleanFont(el.style.fontFamily)) ELSE None,
     !["tracking"] = ExtractTracking(el),
     !["width"] = ExtractWidth(el)]

----------------------------------------------------------------------------
(* htmlConverter.ts: extractParagraphProperties *)

\* Mutant: justify is stored as it is.
AlignForKeepsJustify(value) ==
  IF value = Chars("left") THEN Some("left")
  ELSE IF value = Chars("right") THEN Some("right")
  ELSE IF value = Chars("center") THEN Some("center")
  ELSE IF value = Chars("justify") THEN Some("justify")
  ELSE None

\* The align stored for a value of the align attribute or of text-align.
AlignFor(value) ==
  IF value = Chars("left") THEN Some("left")
  ELSE IF value = Chars("right") THEN Some("right")
  ELSE IF value = Chars("center") THEN Some("center")
  ELSE IF value = Chars("justify") THEN Some("justified")
  ELSE None

AlignWords == <<Chars("left"), Chars("right"), Chars("center"), Chars("justify")>>

\* The alternative of (left|right|center|justify) that matches at v.
WordAt(s, v) ==
  LET found == {k \in 1..Len(AlignWords) :
                  /\ v + Len(AlignWords[k]) - 1 <= Len(s)
                  /\ ToLowerCase(SubSeq(s, v, v + Len(AlignWords[k]) - 1))
                       = AlignWords[k]}
  IN IF found = {} THEN None
     ELSE Some(AlignWords[CHOOSE k \in found : \A j \in found : k <= j])

\* styleAttr.match(/text-align\s*:\s*(left|right|center|justify)/i): the
\* group of the leftmost match in lower case, None without match.
RECURSIVE MatchTextAlign(_, _)
MatchTextAlign(styleAttr, i) ==
  LET v == ValueStartAt(styleAttr, Chars("text-align"), i)
  IN IF i > Len(styleAttr) THEN None
     ELSE IF v # 0 /\ WordAt(styleAttr, v) # None THEN WordAt(styleAttr, v)
     ELSE MatchTextAlign(styleAttr, i + 1)

\* A truthy attribute value: not null and not the empty string.
TruthyAttr(attr) == attr # None /\ attr[1] # <<>>

\* Mutant: the style object is consulted last and overwrites the raw string.
ParagraphAlignStyleLast(el) ==
  LET fromAttr == IF TruthyAttr(el.align) THEN AlignFor(el.align[1]) ELSE None
      match == IF TruthyAttr(el.styleAttr)
               THEN MatchTextAlign(el.styleAttr[1], 1) ELSE None
      fromRaw == IF match # None THEN AlignFor(match[1]) ELSE fromAttr
  IN IF el.style.textAlign # <<>> /\ AlignFor(el.style.textAlign) # None
     THEN AlignFor(el.style.textAlign) ELSE fromRaw

\* let align: first from the align attribute, then overwritten from
\* el.style.textAlign, then from text-align in the raw style attribute.
ParagraphAlign(el) ==
  LET fromAttr == IF TruthyAttr(el.align) THEN AlignFor(el.align[1]) ELSE None
      fromStyle == IF el.style.textAlign # <<>>
                      /\ AlignFor(el.style.textAlign) # None
                   THEN AlignFor(el.style.textAlign) ELSE fromAttr
      match == IF TruthyAttr(el.styleAttr)
               THEN MatchTextAlign(el.styleAttr[1], 1) ELSE None
  IN IF match # None THEN AlignFor(match[1]) ELSE fromStyle

\* A length property of the paragraph: from the style object if it gives a
\* value; when that left the field unset or falsy, from the raw attribute.
\* first is the field after the style object was read.
ParagraphLength(el, styleValue, property) ==
  LET parsedValue == IF styleValue # <<>> THEN ParseCssValue(styleValue)
                     ELSE None
      raw == IF TruthyAttr(el.styleAttr) /\ Falsy(parsedValue)
             THEN ExtractCssProperty(el.styleAttr[1], Chars(property))
             ELSE None
  IN [first |-> parsedValue,
      last |-> IF raw # None THEN raw ELSE parsedValue]

ExtractParagraphProperties(el) ==
  LET align == ParagraphAlign(el)
      indent == ParagraphLength(el, el.style.textIndent, "text-indent")
      left == ParagraphLength(el, el.style.marginLeft, "margin-left")
      right == ParagraphLength(el, el.style.marginRight, "margin-right")
      Key(name, set) == IF set THEN <<name>> ELSE <<>>
  IN [order |-> Key("align", align # None)
                \o Key("indent", indent.first # None)
                \o Key("left", left.first # None)
                \o Key("right", right.first # None)
                \o Key("indent", indent.first = None /\ indent.last # None)
                \o Key("left", left.first = None /\ left.last # None)
                \o Key("right", right.first = None /\ right.last # None),
      indent |-> indent.last, left |-> left.last, right |-> right.last,
      align |-> align, tabs |-> None]

----------------------------------------------------------------------------
(* htmlConverter.ts: parseNode, htmlToTinyMceNodes *)

\* Mutant: a field the parent sets is kept when the child sets it too.
MergeFormatParentWins(parentFormat, child) ==
  [f \in FormatFields |->
     IF parentFormat[f] # None THEN parentFormat[f] ELSE child[f]]

\* { ...parent, ...child }
MergeFormat(parentFormat, child) ==
  [f \in FormatFields |->
     IF child[f] # None THEN child[f] ELSE parentFormat[f]]

\* U+00A0, the non-breaking space
Nbsp == " "

\* The format an element hands to the parseNode calls on its children.
ChildFormat(el, fmt) ==
  IF el.tagName \in {"OL", "UL", "LI"} THEN fmt
  ELSE MergeFormat(fmt, ExtractFormatting(el))

RECURSIVE ParseNode(_, _)
RECURSIVE ParseChildren(_, _)

\* el.childNodes.forEach(child => children = children.concat(parseNode(...)))
ParseChildren(childNodes, fmt) ==
  IF childNodes = <<>> THEN <<>>
  ELSE ParseNode(Head(childNodes), fmt) \o ParseChildren(Tail(childNodes), fmt)

ParseNode(n, fmt) ==
  LET children == Some(ParseChildren(n.childNodes, ChildFormat(n, fmt)))
  IN IF n.nodeType = "text"
     THEN <<WithFormat([Node("text") EXCEPT
                          !.text = Some(ReplaceAll(n.textContent, <<{Nbsp}>>,
                                                   <<" ">>))], fmt)>>
     ELSE IF n.nodeType # "element" THEN <<>>
     ELSE IF n.tagName = "BR" THEN <<Node("br")>>
     ELSE IF n.tagName \in {"OL", "UL"}
     THEN <<[Node(IF n.tagName = "OL" THEN "ol" ELSE "ul") EXCEPT
               !.children = children]>>
     ELSE IF n.tagName = "LI"
     THEN <<[Node("li") EXCEPT !.children = children]>>
     ELSE IF n.tagName = "P"
     THEN <<[Node("paragraph") EXCEPT
               !.children = children,
               !.paragraph = Some(ExtractParagraphProperties(n))]>>
     ELSE <<WithFormat([Node(TagToLowerCase(n.tagName)) EXCEPT
                          !.children = children], ExtractFormatting(n))>>

\* htmlToTinyMceNodes, from doc.body.childNodes on
HtmlToTinyMceNodes(bodyChildNodes) == ParseChildren(bodyChildNodes, NoFormat)

----------------------------------------------------------------------------
(* Inputs *)

SeqsUpTo(S, n) == UNION {[1..k -> S] : k \in 0..n}

Perms(S) ==
  {f \in [1..Cardinality(S) -> S] : \A i, j \in DOMAIN f : f[i] = f[j] => i = j}

Text(t) == [Node("text") EXCEPT !.text = Some(t)]
TextA == Text(<<"a">>)
Li(kids) == [Node("li") EXCEPT !.children = Some(kids)]
List(type, kids) == [Node(type) EXCEPT !.children = Some(kids)]

\* A fraction leaf that happens to have the type of a list item.
StackLi ==
  [Node("li") EXCEPT !.children = Some(<<TextA>>),
                     !.stack = Some([numerator |-> <<"1">>,
                                     denominator |-> <<"2">>,
                                     divider |-> None])]

(* Paragraph property records *)
ParagraphNums == {None, Some(0), Some(MaxNum)}
ParagraphAligns == {None} \cup {Some(a) : a \in AlignValues}
ParagraphTabs == {None} \cup {Some(t) : t \in SeqsUpTo({MaxNum}, MaxTabs)}

KeysSet(i, l, r, a, t) ==
  (IF i # None THEN {"indent"} ELSE {}) \cup
  (IF l # None THEN {"left"} ELSE {}) \cup
  (IF r # None THEN {"right"} ELSE {}) \cup
  (IF a # None THEN {"align"} ELSE {}) \cup
  (IF t # None THEN {"tabs"} ELSE {})

ParagraphRecords ==
  UNION {{[order |-> o, indent |-> i, left |-> l, right |-> r, align |-> a,
           tabs |-> t] : o \in Perms(KeysSet(i, l, r, a, t))} :
         i \in ParagraphNums, l \in ParagraphNums, r \in {None, Some(MaxNum)},
         a \in ParagraphAligns, t \in ParagraphTabs}

(* Text leaves *)
TextAlphabet == {"^", "I", "J", "M", " ", "%", "c", "D", "p", "a"}
Texts == SeqsUpTo(TextAlphabet, MaxTextLen)

PlainLeaves == {Text(t) : t \in Texts}

Flag == {None, Some(TRUE)}
Flag3 == {None, Some(FALSE), Some(TRUE)}
Nums == {None, Some(0), Some(TrackingDefault)}
Rgbs == {None, Some(0), Some(MaxNum), Some(RgbMask), Some(RgbMask + MaxNum)}
Fonts == {None, Some(<<"K", "a", "i">>)}

\* Every combination of fields that yield a token, each with one value.
TokenLeaves ==
  {[TextA EXCEPT !.underline = u, !.overline = o, !.strikethrough = k,
                 !.superscript = sp, !.subscript = sb,
                 !.color = c, !.rgbColor = rgb, !.height = h, !.width = w,
                 !.tracking = t, !.slant = q, !.font = f] :
   u \in Flag, o \in Flag, k \in Flag, sp \in Flag, sb \in Flag,
   c \in {None, Some(MaxNum)}, rgb \in {None, Some(RgbMask + MaxNum)},
   h \in {None, Some(MaxNum)},
   w \in {None, Some(MaxNum)}, t \in {None, Some(TrackingDefault)},
   q \in {None, Some(MaxNum)}, f \in {None, Some(<<"K", "a", "i">>)}}

\* The numeric fields over absent, zero and non-zero values.
NumberLeaves ==
  {[TextA EXCEPT !.color = c, !.rgbColor = rgb, !.height = h, !.width = w,
                 !.tracking = t, !.slant = q] :
   c \in Nums, rgb \in Rgbs, h \in Nums, w \in Nums, t \in Nums, q \in Nums}

\* The fields the font command reads.
FontLeaves ==
  {[TextA EXCEPT !.font = f, !.bold = b, !.italic = i, !.fontBold = fb,
                 !.fontItalic = fi] :
   f \in Fonts, b \in Flag3, i \in Flag3, fb \in Flag3, fi \in Flag3}

\* The toggles over absent, false and true.
ToggleLeaves ==
  {[TextA EXCEPT !.underline = u, !.overline = o, !.strikethrough = k,
                 !.superscript = sp, !.subscript = sb] :
   u \in Flag3, o \in Flag3, k \in Flag3, sp \in Flag3, sb \in Flag3}

TextLeaves ==
  PlainLeaves \cup TokenLeaves \cup NumberLeaves \cup FontLeaves
  \cup ToggleLeaves

(* Lists *)
InnerLists ==
  {List("ol", <<Li(<<TextA>>)>>),
   List("ol", <<Li(<<TextA>>), Li(<<TextA>>)>>),
   List("ul", <<Li(<<TextA>>)>>)}

Items ==
  {Li(<<TextA>>),
   Li(<<TextA, List("ol", <<Li(<<TextA>>), Li(<<TextA>>)>>)>>),
   Node("li"),
   StackLi}

ListKids == Items \cup InnerLists \cup {TextA}

TopLists ==
  {List(t, kids) : t \in {"ol", "ul"},
                   kids \in SeqsUpTo(ListKids, MaxKids) \ {<<>>}}

\* List containers that are direct children of one another, three deep.
DeepLists ==
  {List(t1, <<Li(<<TextA>>),
              List(t2, <<Li(<<TextA>>),
                         List(t3, <<Li(<<TextA>>), Li(<<TextA>>)>>),
                         Li(<<TextA>>)>>),
              Li(<<TextA>>)>>) :
   t1 \in {"ol", "ul"}, t2 \in {"ol", "ul"}, t3 \in {"ol", "ul"}}

\* Two nested lists in a row, then an item.
SiblingLists ==
  {List(t1, <<List(t2, <<Li(<<TextA>>), Li(<<TextA>>)>>),
              List(t3, <<Li(<<TextA>>)>>),
              Li(<<TextA>>)>>) :
   t1 \in {"ol", "ul"}, t2 \in {"ol", "ul"}, t3 \in {"ol", "ul"}}

\* A list inside an item, then an item, then a nested list.
ItemLists ==
  {List(t1, <<Li(<<TextA>>),
              Li(<<TextA, List(t2, <<Li(<<TextA>>), Li(<<TextA>>)>>)>>),
              Li(<<TextA>>),
              List(t3, <<Li(<<TextA>>)>>)>>) :
   t1 \in {"ol", "ul"}, t2 \in {"ol", "ul"}, t3 \in {"ol", "ul"}}

ListForests ==
  {<<l>> : l \in TopLists \cup DeepLists \cup SiblingLists \cup ItemLists}
  \cup {<<a, b>> : a \in InnerLists \cup Items, b \in InnerLists \cup Items}

(* Fractions *)
CenterParagraph ==
  [order |-> <<"align">>, indent |-> None, left |-> None, right |-> None,
   align |-> Some("center"), tabs |-> None]

Dividers == {None, Some(<<"^">>), Some(<<"/">>), Some(<<"#">>), Some(<<>>)}

\* Nodes with stack set, of every kind and with the fields a fraction leaf
\* does not read set or not.
StackNodes ==
  {[Node(t) EXCEPT !.text = tx, !.children = ch, !.paragraph = p, !.bold = b,
                   !.stack = Some([numerator |-> n, denominator |-> <<"2">>,
                                   divider |-> d])] :
   t \in {"text", "li", "paragraph", "ol", "span"},
   tx \in {None, Some(<<"a">>)}, ch \in {None, Some(<<TextA>>)},
   p \in {None, Some(CenterParagraph)}, b \in {None, Some(TRUE)},
   n \in {<<>>, <<"1">>}, d \in Dividers}

StackForests ==
  {<<s>> : s \in StackNodes}
  \cup {<<List(t, <<Li(<<TextA>>), s, Li(<<TextA>>)>>)>> :
         t \in {"ol", "ul"}, s \in {x \in StackNodes : x.type = "li"}}

(* Paragraphs and containers *)
BoldA == [TextA EXCEPT !.bold = Some(TRUE)]

Formats ==
  {NoFormat,
   [NoFormat EXCEPT !["bold"] = Some(TRUE)],
   [NoFormat EXCEPT !["italic"] = Some(TRUE), !["fontBold"] = Some(TRUE),
                    !["fontItalic"] = Some(FALSE)],
   [NoFormat EXCEPT !["underline"] = Some(TRUE), !["overline"] = Some(TRUE),
                    !["strikethrough"] = Some(TRUE)],
   [NoFormat EXCEPT !["subscript"] = Some(TRUE)],
   [NoFormat EXCEPT !["superscript"] = Some(TRUE)],
   [NoFormat EXCEPT !["color"] = Some(MaxNum), !["rgbColor"] = Some(MaxNum)],
   [NoFormat EXCEPT !["font"] = Some(<<"K", "a", "i">>),
                    !["height"] = Some(MaxNum), !["width"] = Some(MaxNum)],
   [NoFormat EXCEPT !["tracking"] = Some(TrackingDefault),
                    !["slant"] = Some(MaxNum)]}

ParagraphKids ==
  {None, Some(<<>>), Some(<<TextA>>), Some(<<TextA, BoldA>>),
   Some(<<[Node("paragraph") EXCEPT !.children = Some(<<TextA>>)], BoldA>>)}

ParagraphNodes ==
  {[Node("paragraph") EXCEPT !.children = ch, !.paragraph = p, !.text = tx] :
   ch \in ParagraphKids, p \in {None, Some(CenterParagraph)},
   tx \in {None, Some(<<"a">>)}}

\* Containers of every kind, with and without text of their own.
Containers ==
  {[Node(t) EXCEPT !.children = Some(<<BoldA, TextA>>), !.text = tx] :
   t \in {"paragraph", "li", "span"}, tx \in {None, Some(<<"a">>)}}
  \cup {[Node(t) EXCEPT !.children = Some(<<Li(<<BoldA>>), Li(<<TextA>>)>>),
                         !.text = tx] :
         t \in {"ol", "ul"}, tx \in {None, Some(<<"a">>)}}

\* A container with formatting fields, alone, in an unformatted container
\* and around a formatted one.
BlockForests ==
  {<<p>> : p \in ParagraphNodes}
  \cup {<<WithFormat(c, f)>> : c \in Containers, f \in Formats}
  \cup {<<[Node("span") EXCEPT !.children = Some(<<WithFormat(c, f)>>)]>> :
         c \in Containers, f \in Formats}
  \cup {<<WithFormat([Node("paragraph") EXCEPT
                        !.children = Some(<<WithFormat(c, f), TextA>>)], g)>> :
         c \in Containers, f \in Formats, g \in Formats}

(* Line breaks *)
\* A br node as parseBrNode makes it, and one that carries fields a br
\* does not use.
Br == Node("br")
BrNodes == {Br, [Br EXCEPT !.text = Some(<<"a">>), !.bold = Some(TRUE)]}

\* Children of a block and of a list container, with br nodes among them.
BreakKids == SeqsUpTo({TextA} \cup BrNodes, MaxKids + 1)
BreakItems ==
  SeqsUpTo({Li(<<TextA>>), Li(<<TextA, Br, TextA>>), Li(<<Br>>), Br},
           MaxKids + 1)

BreakForests ==
  BreakKids
  \cup {<<[Node(t) EXCEPT !.children = Some(k)]>> :
          t \in {"paragraph", "span"}, k \in BreakKids}
  \cup {<<List(t, k)>> : t \in {"ol", "ul"}, k \in BreakItems}
  \cup {<<List("ol", <<Li(<<TextA>>), Br, List("ol", k), Br, Li(<<TextA>>)>>)>> :
          k \in SeqsUpTo({Li(<<TextA>>), Br}, MaxKids)}

(* Documents *)
TextNode(t) == [DomNode("text", "") EXCEPT !.textContent = t]
Element(tagName, kids) == [DomNode("element", tagName) EXCEPT !.childNodes = kids]
Put(el, kids) == [el EXCEPT !.childNodes = kids]

\* An element with a style attribute, and the style object a browser
\* builds from it.
Styled(tagName, raw, style) ==
  [DomNode("element", tagName) EXCEPT !.styleAttr = Some(Chars(raw)),
                                      !.style = style]

\* Style attributes that declare text-align: what el.style.textAlign reads
\* (the last valid declaration, in lower case) and which word the pattern
\* finds in the attribute itself (the first one that follows "text-align:").
AlignStyles ==
  {[raw |-> "text-align:left", reads |-> "left", match |-> "left"],
   [raw |-> "text-align: right", reads |-> "right", match |-> "right"],
   [raw |-> "text-align:center", reads |-> "center", match |-> "center"],
   [raw |-> "TEXT-ALIGN : Justify", reads |-> "justify", match |-> "justify"],
   [raw |-> "text-align:left;text-align:right", reads |-> "right",
    match |-> "left"],
   [raw |-> "text-align:center; text-align:justify", reads |-> "justify",
    match |-> "center"],
   [raw |-> "text-align:justify;text-align:left", reads |-> "left",
    match |-> "justify"],
   [raw |-> "text-align:right;text-align:center", reads |-> "center",
    match |-> "right"],
   [raw |-> "text-align:/**/center", reads |-> "center", match |-> ""],
   [raw |-> "text-align:/**/justify", reads |-> "justify", match |-> ""],
   [raw |-> "text-align:/**/left", reads |-> "left", match |-> ""],
   [raw |-> "text-align:start", reads |-> "start", match |-> ""],
   [raw |-> "color:red", reads |-> "", match |-> ""]}

AlignAttributes ==
  {None, Some(Chars("left")), Some(Chars("right")), Some(Chars("center")),
   Some(Chars("justify")), Some(Chars("middle"))}

AlignedParagraphs ==
  {[Styled("P", st.raw, [NoStyle EXCEPT !.textAlign = Chars(st.reads)])
      EXCEPT !.align = a, !.childNodes = <<TextNode(<<"a">>)>>] :
   st \in AlignStyles, a \in AlignAttributes}
  \cup {[Element("P", <<TextNode(<<"a">>)>>) EXCEPT !.align = a] :
         a \in AlignAttributes}

\* Values of a length property as the author wrote them, and what the style
\* object reads: the value if it is a CSS length, nothing otherwise.
LengthValues ==
  {[raw |-> "2em", reads |-> "2em"],
   [raw |-> "32px", reads |-> "32px"],
   [raw |-> " 16px ", reads |-> "16px"],
   [raw |-> "1600pt", reads |-> "1600pt"],
   [raw |-> "0", reads |-> "0px"],
   [raw |-> "abc", reads |-> ""],
   [raw |-> "abcem", reads |-> ""],
   [raw |-> "abcpx", reads |-> ""],
   [raw |-> "abcpt", reads |-> ""],
   [raw |-> "em", reads |-> ""],
   [raw |-> "5xyz", reads |-> ""],
   [raw |-> "5vw", reads |-> "5vw"]}

LengthProperties == {"text-indent", "margin-left", "margin-right"}

\* style.<property> = reads
StyleWith(property, reads) ==
  CASE property = "text-indent" -> [NoStyle EXCEPT !.textIndent = Chars(reads)]
    [] property = "margin-left" -> [NoStyle EXCEPT !.marginLeft = Chars(reads)]
    [] property = "margin-right" -> [NoStyle EXCEPT !.marginRight = Chars(reads)]
    [] property = "letter-spacing" ->
         [NoStyle EXCEPT !.letterSpacing = Chars(reads)]

Declaration(property, value) == property \o ":" \o value

LengthElements ==
  {Put(Styled("P", Declaration(pr, v.raw), StyleWith(pr, v.reads)),
       <<TextNode(<<"a">>)>>) : pr \in LengthProperties, v \in LengthValues}
  \cup {Put(Styled("SPAN", Declaration("letter-spacing", v.raw),
                    StyleWith("letter-spacing", v.reads)),
             <<TextNode(<<"a">>)>>) : v \in LengthValues}

\* Style attributes that declare a length property twice: the pattern finds
\* the first declaration in the attribute, the style object reads the last
\* one.  rawValue and styleValue are the two declared lengths in em.
RepeatedLengths ==
  {[property |-> "text-indent", raw |-> "text-indent:2em;text-indent:4em",
    reads |-> "4em", rawValue |-> 2, styleValue |-> 4],
   [property |-> "margin-left", raw |-> "margin-left:32px; margin-left:16px",
    reads |-> "16px", rawValue |-> 2, styleValue |-> 1],
   [property |-> "margin-right", raw |-> "margin-right: 1em;margin-right:3em",
    reads |-> "3em", rawValue |-> 1, styleValue |-> 3],
   [property |-> "text-indent", raw |-> "text-indent:2em;text-indent:0",
    reads |-> "0px", rawValue |-> 2, styleValue |-> 0],
   [property |-> "margin-left", raw |-> "margin-left:0;margin-left:2em",
    reads |-> "2em", rawValue |-> 0, styleValue |-> 2],
   [property |-> "margin-right", raw |-> "margin-right:2em;margin-right:2em",
    reads |-> "2em", rawValue |-> 2, styleValue |-> 2]}

RepeatedLengthElements ==
  {Put(Styled("P", d.raw, StyleWith(d.property, d.reads)),
       <<TextNode(<<"a">>)>>) : d \in RepeatedLengths}

\* Inline values of letter-spacing and of transform, with the number the
\* converter parses from each (None without inline value), and class names.
InlineTrackings ==
  {[raw |-> "", reads |-> "", value |-> None],
   [raw |-> "letter-spacing:0", reads |-> "0px", value |-> Some(0)],
   [raw |-> "letter-spacing:2em", reads |-> "2em", value |-> Some(2)],
   [raw |-> "letter-spacing:normal", reads |-> "normal", value |-> None]}

InlineWidths ==
  {[raw |-> "", reads |-> "", value |-> None],
   [raw |-> "transform:scaleX(0)", reads |-> "scaleX(0)", value |-> Some(0)],
   [raw |-> "transform:scaleX(2)", reads |-> "scaleX(2)", value |-> Some(2)],
   [raw |-> "transform:rotate(0deg)", reads |-> "rotate(0deg)",
    value |-> None]}

ClassNames == {"", "letterspacing", "letterwidth", "letterspacing letterwidth"}

MarkerElements ==
  {[DomNode("element", "SPAN") EXCEPT
      !.className = Chars(c),
      !.styleAttr = IF t.raw = "" /\ w.raw = "" THEN None
                    ELSE Some(Chars(t.raw \o ";" \o w.raw)),
      !.style = [NoStyle EXCEPT !.letterSpacing = Chars(t.reads),
                                !.transform = Chars(w.reads)],
      !.childNodes = <<TextNode(<<"a">>)>>] :
   c \in ClassNames, t \in InlineTrackings, w \in InlineWidths}

\* Elements that set formatting by their tag, their class or their style.
FormatShells ==
  {Element(t, <<>>) :
     t \in {"B", "STRONG", "I", "EM", "U", "S", "SUB", "SUP", "DIV"}}
  \cup {Styled("SPAN", "font-family: Kai",
                [NoStyle EXCEPT !.fontFamily = Chars("Kai")]),
         Styled("SPAN", "font-family: 'Hei', serif",
                [NoStyle EXCEPT !.fontFamily = Chars("Hei, serif")]),
         Styled("SPAN", "color: #010203",
                [NoStyle EXCEPT !.color = Chars("rgb(1, 2, 3)")]),
         Styled("SPAN", "letter-spacing: 2em",
                [NoStyle EXCEPT !.letterSpacing = Chars("2em")]),
         Styled("SPAN", "text-decoration: underline overline",
                [NoStyle EXCEPT !.textDecoration = Chars("underline overline")]),
         [Element("SPAN", <<>>) EXCEPT !.className = Chars("letterspacing")]}

\* A paragraph that sets formatting by its style.
StruckParagraph ==
  Styled("P", "text-decoration: line-through",
         [NoStyle EXCEPT !.textDecoration = Chars("line-through")])

\* An element in an element, in a paragraph, and across a list.
FormatDocs ==
  {<<Put(o, <<Put(m, <<TextNode(<<"a">>)>>), TextNode(<<"b">>),
              Element("BR", <<>>)>>)>> :
   o \in FormatShells \cup {StruckParagraph}, m \in FormatShells}
  \cup {<<Put(o, <<Element("UL", <<Element("LI",
                      <<Put(m, <<TextNode(<<"a">>)>>),
                        TextNode(<<"b">>)>>)>>)>>)>> :
         o \in FormatShells, m \in FormatShells}
  \cup {<<DomNode("comment", ""), TextNode(<<"a", Nbsp, "b">>)>>}

\* Colors: channel values at the ends and in the middle of 0..255, in the
\* two notations the converter reads from el.style.color.
Channels == {0, 1, 15, 16, 128, 255}

Hex2(n) ==
  SubSeq(HexDigits, (n \div 16) + 1, (n \div 16) + 1)
  \o SubSeq(HexDigits, (n % 16) + 1, (n % 16) + 1)

RgbNotation(r, g, b) ==
  Chars("rgb(") \o NatToStr(r) \o Chars(", ") \o NatToStr(g) \o Chars(", ")
  \o NatToStr(b) \o Chars(")")

HexNotation(r, g, b) == Chars("#" \o Hex2(r) \o Hex2(g) \o Hex2(b))

\* <span style="color: ...">a</span>
Colored(color) ==
  [DomNode("element", "SPAN") EXCEPT
     !.styleAttr = Some(Chars("color: ") \o color),
     !.style = [NoStyle EXCEPT !.color = color],
     !.childNodes = <<TextNode(<<"a">>)>>]

ColorDocs ==
  {<<Colored(RgbNotation(r, g, b))>> : r \in Channels, g \in Channels,
                                        b \in Channels}
  \cup {<<Colored(HexNotation(r, g, b))>> : r \in Channels, g \in Channels,
                                             b \in Channels}

\* Values of rgbColor inside and outside of 0..2^24 - 1.
WideRgbs ==
  {1, 255, 65536, RgbMask - 1, RgbMask, RgbMask + 1, 2147483647,
   0 - 1, 0 - RgbMask, 0 - 2147483647}

ColorForests == {<<[TextA EXCEPT !.rgbColor = Some(v)]>> : v \in WideRgbs}

\* Elements the converter has no case for: <div>, and an element whose tag
\* name is that of a node type, <text> (no HTML element; DOMParser makes an
\* unknown element of it, with the tag name TEXT).
UnknownTagDocs ==
  {<<Element(t, <<TextNode(<<"a">>), Element("BR", <<>>)>>)>> :
     t \in {"DIV", "TEXT"}}
  \cup {<<Element("P", <<Element("TEXT", <<TextNode(<<"a">>)>>)>>)>>}

ParseDocs ==
  {<<e>> : e \in AlignedParagraphs \cup LengthElements
                 \cup RepeatedLengthElements \cup MarkerElements}
  \cup FormatDocs \cup UnknownTagDocs

\* The content <b>s</b>; an empty s leaves the element without text node.
BoldDoc(s) ==
  <<Element("B", IF s = <<>> THEN <<>> ELSE <<TextNode(s)>>)>>

\* The content <p style="text-align:a"><b>s</b></p>.
AlignedBoldDoc(a, s) ==
  <<Put(Styled("P", Declaration("text-align", a),
               [NoStyle EXCEPT !.textAlign = Chars(a)]), BoldDoc(s))>>

\* Strings without markup and without escape sequence.
PlainStrings ==
  SeqsUpTo({"a", " ", Nbsp}, MaxTextLen) \cup {<<"H", "i">>}

StyleAlignValues == {"left", "right", "center", "justify"}

RoundTripDocs ==
  {BoldDoc(s) : s \in PlainStrings}
  \cup {AlignedBoldDoc(a, s) : a \in StyleAlignValues, s \in PlainStrings}

\* What the user may have in the editor.
PageDocs == {<<>>, AlignedBoldDoc("center", <<"H", "i">>)}

\* The forests of the behaviours with several convert calls.
CallForests ==
  {<<List("ol", <<Li(<<TextA>>), Li(<<TextA>>)>>)>>,
   <<List("ol", <<Li(<<TextA>>),
                  List("ol", <<Li(<<TextA>>), Li(<<TextA>>)>>),
                  Li(<<TextA>>)>>)>>,
   <<List("ul", <<Li(<<TextA>>)>>), List("ol", <<Li(<<TextA>>)>>)>>,
   <<TextA>>}

----------------------------------------------------------------------------
(* README.md: MTextRenderer *)

\* An object of the scene.  An MText is named by the number of the
\* renderMText call that made it (its text is that call's content); a
\* LineSegments by the call whose animation-frame callback made it, the
\* MText whose box it was drawn from and the width it was drawn with.
SceneObject(kind, call, box, width) ==
  [kind |-> kind, call |-> call, box |-> box, width |-> width]

MTextObject(k) == SceneObject("MText", k, 0, 0)
LineSegments(k, box, width) == SceneObject("LineSegments", k, box, width)

\* setupLights
Lights ==
  {SceneObject("AmbientLight", 0, 0, 0),
   SceneObject("DirectionalLight", 0, 0, 0)}

\* MText.getFonts(options.content, true): the fonts that the font commands
\* of the text name; the model tells only whether there is any.
RequiredFonts(text) == IF Includes(text, <<"\\", "f">>) THEN {"font"} ELSE {}

\* renderMText before the fonts are loaded: the scene without the current
\* MText and without the text box lines (this.textBox is never assigned and
\* stays null).
SceneCleared ==
  scene \ ((IF currentMText # None THEN {MTextObject(currentMText[1])} ELSE {})
           \cup (IF textBoxLines # None THEN {textBoxLines[1]} ELSE {}))

\* renderMText from `new MText` on, for call k, on the scene s: the MText is
\* made current and added, and the text box is left to the next frame.
MTextCreated(k, options, s) ==
  /\ currentMText' = Some(k)
  /\ scene' = s \cup {MTextObject(k)}
  /\ frames' = IF options.isDrawTextBox
               THEN Append(frames, [call |-> k, width |-> options.width])
               ELSE frames

\* The call renderMText(options), up to its first await or, when no font is
\* required, to its end.
RenderMText(options) ==
  /\ textBoxLines' = None
  /\ IF RequiredFonts(options.content) # {}
     THEN /\ scene' = SceneCleared
          /\ UNCHANGED <<currentMText, frames>>
          /\ renderCalls' = Append(renderCalls,
                                   [pc |-> "loading", error |-> FALSE])
     ELSE /\ MTextCreated(Len(renderCalls) + 1, options, SceneCleared)
          /\ renderCalls' = Append(renderCalls,
                                   [pc |-> "resolved", error |-> FALSE])

\* updateTextBox(box, width), called by the frame callback of call k, on the
\* scene sc with the lines tbl: the lines go, and new ones are drawn.
UpdateTextBox(k, box, width, sc, tbl) ==
  LET without == IF tbl # None THEN sc \ {tbl[1]} ELSE sc
      lines == LineSegments(k, box, width)
  IN IF currentMText = None THEN [scene |-> without, textBoxLines |-> None]
     ELSE [scene |-> without \cup {lines}, textBoxLines |-> Some(lines)]

\* The callbacks fs run one after the other.
RECURSIVE RunFrames(_, _, _)
RunFrames(fs, sc, tbl) ==
  IF fs = <<>> THEN [scene |-> sc, textBoxLines |-> tbl]
  ELSE LET after == IF currentMText # None
                    THEN UpdateTextBox(Head(fs).call, currentMText[1],
                                       Head(fs).width, sc, tbl)
                    ELSE [scene |-> sc, textBoxLines |-> tbl]
       IN RunFrames(Tail(fs), after.scene, after.textBoxLines)

----------------------------------------------------------------------------
(* Operations *)

\* ModelToMTextConverter.convert(nodes), as main.ts calls it; the forest is
\* only read.
ConvertCall ==
  /\ calls < MaxCalls
  /\ nodes' = nodes
  /\ mtext' = Convert(nodes)
  /\ calls' = calls + 1
  /\ returned' = Append(returned, [forest |-> nodes, string |-> mtext',
                                   after |-> nodes'])
  /\ UNCHANGED <<walkVars, paragraphVars, parseVars, pageVars, rendererVars>>

\* The call nodeToMText(nodes[i]) that convert makes.
CallTop ==
  \E i \in 1..Len(nodes) :
    /\ node' = Some(nodes[i])
    /\ listContext' = ConvertListContext
    /\ result' = Some(NodeToMText(nodes[i], ConvertListContext))
    /\ parent' = <<>>
    /\ index' = i
    /\ UNCHANGED <<convVars, paragraphVars, parseVars, pageVars, rendererVars>>

\* Does nodeToMText(n, ...) recurse into n.children?
Recurses(n) ==
  /\ ~StackBranch(n)
  /\ ~TextBranch(n)
  /\ n.children # None

\* The listContext that nodeToMText(n, ctx) passes to its i-th child: for a
\* list container the shared context as the earlier children left it.
ChildContext(n, ctx, i) ==
  IF n.type \in {"ul", "ol"}
  THEN LET first == ListChildContext(n, ctx)
           earlier == MapChildren(SubSeq(n.children[1], 1, i - 1), first)
       IN Some([first[1] EXCEPT !.olCounter = earlier.oc])
  ELSE None

\* The recursive call nodeToMText(child, ...) made by the observed call.
CallChild ==
  /\ node # None
  /\ Recurses(node[1])
  /\ \E i \in 1..Len(node[1].children[1]) :
       LET child == node[1].children[1][i]
           ctx == ChildContext(node[1], listContext, i)
       IN /\ node' = Some(child)
          /\ listContext' = ctx
          /\ result' = Some(NodeToMText(child, ctx))
          /\ parent' = Append(parent, node[1])
          /\ index' = i
  /\ UNCHANGED <<convVars, paragraphVars, parseVars, pageVars, rendererVars>>

\* The forest is rebuilt from scratch on every edit (main.ts, Change).
NewForest ==
  /\ nodes' \in CallForests \ {nodes}
  /\ node' = None
  /\ listContext' = None
  /\ result' = None
  /\ parent' = <<>>
  /\ index' = 0
  /\ UNCHANGED <<mtext, calls, returned, paragraphVars, parseVars, pageVars, rendererVars>>

\* The call parseNode(child) that htmlToTinyMceNodes makes.
ParseTop ==
  \E i \in 1..Len(content) :
    /\ domNode' = Some(content[i])
    /\ format' = Some(NoFormat)
    /\ parsed' = Some(ParseNode(content[i], NoFormat))
    /\ ancestors' = <<>>
    /\ UNCHANGED <<content, convVars, walkVars, paragraphVars, pageVars, rendererVars>>

\* Does parseNode(n, ...) recurse into n.childNodes?
ParseRecurses(n) == n.nodeType = "element" /\ n.tagName # "BR"

\* The recursive call parseNode(child, ...) made by the observed call.
ParseChild ==
  /\ domNode # None
  /\ ParseRecurses(domNode[1])
  /\ \E i \in 1..Len(domNode[1].childNodes) :
       LET child == domNode[1].childNodes[i]
           fmt == ChildFormat(domNode[1], format[1])
       IN /\ domNode' = Some(child)
          /\ format' = Some(fmt)
          /\ parsed' = Some(ParseNode(child, fmt))
          /\ ancestors' = Append(ancestors, domNode[1])
  /\ UNCHANGED <<content, convVars, walkVars, paragraphVars, pageVars, rendererVars>>

\* The user edits the text: the editor's content changes, no handler runs.
EditorEdit ==
  /\ content' \in PageDocs \ {content}
  /\ UNCHANGED <<convVars, walkVars, paragraphVars, domNode, format, parsed,
                 ancestors, pageVars, rendererVars>>

\* The widths of the two renderMText calls, in tenths: 8.7 and 5.
ChangeWidth == 87
CheckboxWidth == 50

\* editor.on('Change', ...): parse the content, convert, keep the string in
\* mtext and render it.  An entry of rendered holds the argument of the
\* call, the event that made it and the content of the editor at that time.
EditorChange ==
  /\ Len(rendered) < MaxEvents
  /\ nodes' = HtmlToTinyMceNodes(content)
  /\ mtext' = Convert(nodes')
  /\ calls' = calls + 1
  /\ returned' = Append(returned, [forest |-> nodes', string |-> mtext',
                                   after |-> nodes'])
  /\ rendered' = Append(rendered,
                        [event |-> "Change", html |-> content,
                         args |-> [content |-> mtext', width |-> ChangeWidth,
                                   isDrawTextBox |-> showTextBox]])
  /\ RenderMText([content |-> mtext', width |-> ChangeWidth,
                  isDrawTextBox |-> showTextBox])
  /\ UNCHANGED <<walkVars, paragraphVars, parseVars, showTextBox>>

\* Mutant: the checkbox handler converts the content again.
CheckboxContentConverted == Convert(HtmlToTinyMceNodes(content))

\* The content the checkbox handler renders: the module variable mtext.
CheckboxContent == mtext

\* showTextBoxCheckbox.addEventListener('change', ...)
ShowTextBoxChange ==
  /\ Len(rendered) < MaxEvents
  /\ showTextBox' = ~showTextBox
  /\ rendered' = Append(rendered,
                        [event |-> "change", html |-> content,
                         args |-> [content |-> CheckboxContent,
                                   width |-> CheckboxWidth,
                                   isDrawTextBox |-> showTextBox']])
  /\ RenderMText([content |-> CheckboxContent, width |-> CheckboxWidth,
                  isDrawTextBox |-> showTextBox'])
  /\ UNCHANGED <<convVars, walkVars, paragraphVars, parseVars>>

\* Mutant: the error of the font loader is thrown again, as initializeFonts
\* does.
LoadErrorRethrownAlways == TRUE

\* catch (error) { console.error('Error loading fonts:', error); }
LoadErrorRethrown == FALSE

\* await this.fontLoader.load(requiredFonts) of call k returns: the call
\* goes on to its end.
FontsLoaded ==
  \E k \in 1..Len(renderCalls) :
    /\ renderCalls[k].pc = "loading"
    /\ renderCalls' = [renderCalls EXCEPT ![k].pc = "resolved"]
    /\ MTextCreated(k, rendered[k].args, scene)
    /\ UNCHANGED <<convVars, walkVars, paragraphVars, parseVars, pageVars,
                   textBoxLines>>

\* await this.fontLoader.load(requiredFonts) of call k throws: the error is
\* logged and the call goes on to its end.
FontsFailed ==
  \E k \in 1..Len(renderCalls) :
    /\ renderCalls[k].pc = "loading"
    /\ IF LoadErrorRethrown
       THEN /\ renderCalls' = [renderCalls EXCEPT ![k].pc = "rejected"]
            /\ UNCHANGED <<scene, currentMText, frames>>
       ELSE /\ renderCalls' = [renderCalls EXCEPT ![k].pc = "resolved",
                                                  ![k].error = TRUE]
            /\ MTextCreated(k, rendered[k].args, scene)
    /\ UNCHANGED <<convVars, walkVars, paragraphVars, parseVars, pageVars,
                   textBoxLines>>

\* The browser runs the callbacks handed to requestAnimationFrame since the
\* last frame, in the order in which they were handed over.
AnimationFrame ==
  /\ frames # <<>>
  /\ LET after == RunFrames(frames, scene, textBoxLines)
     IN /\ scene' = after.scene
        /\ textBoxLines' = after.textBoxLines
  /\ frames' = <<>>
  /\ UNCHANGED <<convVars, walkVars, paragraphVars, parseVars, pageVars,
                 currentMText, renderCalls>>

\* The call paragraphCommand(paragraph).
ParagraphCommandCall ==
  /\ paragraph # None
  /\ cmd = None
  /\ cmd' = Some(ParagraphCommand(paragraph[1]))
  /\ UNCHANGED <<convVars, walkVars, paragraph, parseVars, pageVars, rendererVars>>

----------------------------------------------------------------------------
(* Specifications *)

\* The renderer after its constructor.
InitRenderer ==
  /\ scene = Lights
  /\ currentMText = None
  /\ textBoxLines = None
  /\ renderCalls = <<>>
  /\ frames = <<>>

InitWith(forests, paragraphs) ==
  /\ nodes \in forests
  /\ mtext = <<>>
  /\ calls = 0
  /\ returned = <<>>
  /\ node = None
  /\ listContext = None
  /\ result = None
  /\ parent = <<>>
  /\ index = 0
  /\ paragraph \in paragraphs
  /\ cmd = None
  /\ content = <<>>
  /\ domNode = None
  /\ format = None
  /\ parsed = None
  /\ ancestors = <<>>
  /\ showTextBox = TRUE
  /\ rendered = <<>>
  /\ InitRenderer

\* Lists: one forest, converted and walked call by call.
Init == InitWith(ListForests, {None})
Next == ConvertCall \/ CallTop \/ CallChild
Spec == Init /\ [][Next]_vars

\* Text leaves.
InitText == InitWith({<<leaf>> : leaf \in TextLeaves}, {None})
NextText == ConvertCall \/ CallTop
SpecText == InitText /\ [][NextText]_vars

\* Paragraph commands.
InitParagraph == InitWith({<<>>}, {Some(p) : p \in ParagraphRecords})
NextParagraph == ParagraphCommandCall
SpecParagraph == InitParagraph /\ [][NextParagraph]_vars

\* Fractions.
InitStack == InitWith(StackForests, {None})
NextStack == ConvertCall \/ CallTop \/ CallChild
SpecStack == InitStack /\ [][NextStack]_vars

\* Paragraphs and containers with formatting fields.
InitBlocks == InitWith(BlockForests, {None})
NextBlocks == ConvertCall \/ CallTop \/ CallChild
SpecBlocks == InitBlocks /\ [][NextBlocks]_vars

\* The parser, walked call by call.
InitParse ==
  /\ nodes = <<>>
  /\ mtext = <<>> /\ calls = 0 /\ returned = <<>>
  /\ node = None /\ listContext = None /\ result = None
  /\ parent = <<>> /\ index = 0
  /\ paragraph = None /\ cmd = None
  /\ content \in ParseDocs
  /\ domNode = None /\ format = None /\ parsed = None /\ ancestors = <<>>
  /\ showTextBox = TRUE /\ rendered = <<>>
  /\ InitRenderer
NextParse == ParseTop \/ ParseChild
SpecParse == InitParse /\ [][NextParse]_vars

\* The page: edits, Change events and checkbox events.
InitPage ==
  /\ nodes = <<>>
  /\ mtext = <<>> /\ calls = 0 /\ returned = <<>>
  /\ node = None /\ listContext = None /\ result = None
  /\ parent = <<>> /\ index = 0
  /\ paragraph = None /\ cmd = None
  /\ content = <<>>
  /\ domNode = None /\ format = None /\ parsed = None /\ ancestors = <<>>
  /\ showTextBox \in BOOLEAN /\ rendered = <<>>
  /\ InitRenderer
NextPage == EditorEdit \/ EditorChange \/ ShowTextBoxChange
SpecPage == InitPage /\ [][NextPage]_vars

\* The page and the renderer: the events of the page, the font loads of the
\* renderMText calls ending in any order, and the animation frames.  The
\* behaviours make at most MaxRenders calls of renderMText.
InitRender == InitPage /\ showTextBox = TRUE
NextRender ==
  \/ EditorEdit
  \/ Len(renderCalls) < MaxRenders /\ EditorChange
  \/ Len(renderCalls) < MaxRenders /\ ShowTextBoxChange
  \/ FontsLoaded \/ FontsFailed \/ AnimationFrame
SpecRender == InitRender /\ [][NextRender]_vars

\* Parse and serialize: the editor holds one document, Change events follow.
InitRoundTrip ==
  /\ nodes = <<>>
  /\ mtext = <<>> /\ calls = 0 /\ returned = <<>>
  /\ node = None /\ listContext = None /\ result = None
  /\ parent = <<>> /\ index = 0
  /\ paragraph = None /\ cmd = None
  /\ content \in RoundTripDocs
  /\ domNode = None /\ format = None /\ parsed = None /\ ancestors = <<>>
  /\ showTextBox = TRUE /\ rendered = <<>>
  /\ InitRenderer
NextRoundTrip == EditorChange
SpecRoundTrip == InitRoundTrip /\ [][NextRoundTrip]_vars

\* Colors: a colored span is parsed, or a leaf with rgbColor is converted.
InitColor ==
  /\ mtext = <<>> /\ calls = 0 /\ returned = <<>>
  /\ node = None /\ listContext = None /\ result = None
  /\ parent = <<>> /\ index = 0
  /\ paragraph = None /\ cmd = None
  /\ \/ content \in ColorDocs /\ nodes = <<>>
     \/ content = <<>> /\ nodes \in ColorForests
  /\ domNode = None /\ format = None /\ parsed = None /\ ancestors = <<>>
  /\ showTextBox = TRUE /\ rendered = <<>>
  /\ InitRenderer
NextColor == ParseTop \/ ConvertCall \/ CallTop
SpecColor == InitColor /\ [][NextColor]_vars

\* Line breaks among the nodes.
InitBreaks == InitWith(BreakForests, {None})
NextBreaks == ConvertCall \/ CallTop \/ CallChild
SpecBreaks == InitBreaks /\ [][NextBreaks]_vars

\* Several convert calls, on forests that change in between.
InitCalls == InitWith(CallForests, {None})
NextCalls == ConvertCall \/ CallTop \/ CallChild \/ NewForest
SpecCalls == InitCalls /\ [][NextCalls]_vars

----------------------------------------------------------------------------
(* Vocabulary of the properties *)

IsPrefix(p, s) == Len(p) <= Len(s) /\ SubSeq(s, 1, Len(p)) = p

Contains(s, sub) ==
  \E i \in 1..(Len(s) - Len(sub) + 1) : SubSeq(s, i, i + Len(sub) - 1) = sub

\* A list item proper; a node with stack set is a fraction leaf.
IsListItem(n) == n.type = "li" /\ n.stack = None

IsList(n) == n.type \in {"ol", "ul"} /\ n.stack = None

Observed == node # None
Parent == parent[Len(parent)]
InList == Observed /\ parent # <<>> /\ IsList(Parent)

\* The number of list items among the first i of kids.
Rank(kids, i) == Cardinality({j \in 1..i : IsListItem(kids[j])})

\* The number of list containers that enclose the observed node directly,
\* one inside the other.
RECURSIVE ChainOf(_)
ChainOf(path) ==
  IF path = <<>> \/ ~IsList(path[Len(path)]) THEN 0
  ELSE 1 + ChainOf(SubSeq(path, 1, Len(path) - 1))

RECURSIVE DropSpaces(_)
DropSpaces(s) ==
  IF s # <<>> /\ Head(s) = " " THEN DropSpaces(Tail(s)) ELSE s

\* What follows the line break and the indentation of a list entry.
AfterBreak(s) == DropSpaces(SubSeq(s, 3, Len(s)))

Children(n) == IF n.children = None THEN <<>> ELSE n.children[1]

----------------------------------------------------------------------------
(* C1: in every ol container, at any depth and whatever was serialized     *)
(* before it, the k-th list item among its direct children is numbered k:  *)
(* its entry reads "k. " after the line break and the indentation.         *)
C1_NumberedFromOne ==
  (InList /\ Parent.type = "ol" /\ IsListItem(node[1])) =>
    IsPrefix(NumToStr(Rank(Children(Parent), index)) \o <<".", " ">>,
             AfterBreak(result[1].s))

\* The second item of an ordered list that lies inside another list and
\* follows a list serialized earlier.
C1_Witness ==
  /\ InList /\ Parent.type = "ol" /\ IsListItem(node[1])
  /\ Len(parent) >= 2
  /\ Rank(Children(Parent), index) = 2
  /\ \E j \in 1..Len(parent[1].children[1]) :
       /\ parent[1].children[1][j] # Parent
       /\ IsList(parent[1].children[1][j])
  /\ IsPrefix(<<"\\", "P", " ", " ", "2", ".", " ">>, result[1].s)

----------------------------------------------------------------------------
(* C2: an ordered list nested in an ordered list, as a direct child or      *)
(* inside one of its items, leaves the outer counter alone: the inner       *)
(* items count from 1, an item advances the counter of its own list by      *)
(* exactly one whatever it contains, and the outer item after the nested    *)
(* list gets the number after the previous outer item.                      *)
C2_OuterCounterKept ==
  /\ (Observed /\ node[1].type = "ol" /\ IsList(node[1])) =>
       /\ LiNumber(ListChildContext(node[1], listContext)[1]) = 1
       /\ (InList /\ Parent.type = "ol") =>
            result[1].oc = listContext[1].olCounter
  /\ (InList /\ Parent.type = "ol" /\ IsListItem(node[1])) =>
       LET d == listContext[1].depth
           before == listContext[1].olCounter
           after == result[1].oc
       IN /\ LiNumber(listContext[1]) = Rank(Children(Parent), index)
          /\ ArrayGet(after, d) = Rank(Children(Parent), index) + 1
          /\ \A i \in 1..(Len(after) + Len(before)) :
               i # d => ArrayGet(after, i) = ArrayGet(before, i)

\* The outer item right after a nested ordered list whose items were numbered.
C2_Witness ==
  /\ InList /\ Parent.type = "ol" /\ IsListItem(node[1])
  /\ index >= 3
  /\ LET prev == Children(Parent)[index - 1]
     IN prev.type = "ol" /\ IsList(prev) /\ Len(Children(prev)) >= 2
  /\ LiNumber(listContext[1]) = 2

----------------------------------------------------------------------------
(* C10: a list item that is a direct child of a list container nested d     *)
(* deep serializes to \P, 2*(d-1) spaces, "* " under ul or "<n>. " under    *)
(* ol, then its children serialized without list context; so a ul of n      *)
(* items gives n entries starting with "\P* ", and a list inside an item    *)
(* starts again at depth 1.                                                 *)
C10_ListItemEntry ==
  /\ (InList /\ IsListItem(node[1])) =>
       \E n \in 1..Len(Children(Parent)) :
         result[1].s =
           <<"\\", "P">> \o Repeat(<<" ">>, 2 * (ChainOf(parent) - 1))
           \o (IF Parent.type = "ul" THEN <<"*", " ">>
               ELSE NumToStr(n) \o <<".", " ">>)
           \o Convert(Children(node[1]))
  /\ (Observed /\ IsList(node[1]) /\ node[1].type = "ul"
      /\ listContext = None
      /\ \A j \in 1..Len(Children(node[1])) :
           IsListItem(Children(node[1])[j])) =>
       result[1].s =
         Concat([j \in 1..Len(Children(node[1])) |->
                   <<"\\", "P", "*", " ">>
                   \o Convert(Children(Children(node[1])[j]))])
  /\ (Observed /\ parent # <<>> /\ IsListItem(Parent)) => listContext = None

\* An item of a list that lies inside an item of another list: the entry
\* is not indented, the list having started again at depth 1.
C10_Witness ==
  /\ InList /\ IsListItem(node[1])
  /\ Len(parent) >= 3
  /\ IsListItem(parent[Len(parent) - 1])
  /\ IsList(parent[Len(parent) - 2])
  /\ ChainOf(parent) = 1
  /\ listContext # None /\ listContext[1].depth = 1
  /\ result[1].s # <<>> /\ result[1].s[3] # " "

----------------------------------------------------------------------------
----------------------------------------------------------------------------
(* Text leaves *)

\* convert has returned the serialization of a single text leaf with text.
LeafConverted ==
  /\ calls > 0
  /\ Len(nodes) = 1
  /\ nodes[1].type = "text"
  /\ TruthyStr(nodes[1].text)
  /\ nodes[1].stack = None
  /\ nodes[1].paragraph = None

Leaf == nodes[1]
LeafText == nodes[1].text[1]

\* No field but type and text is set.
IsPlain(n) == n = [Node("text") EXCEPT !.text = n.text]

\* The fixed substitutions, in the order they are applied.
Substitutions ==
  <<[from |-> <<{"^"}, {"I"}>>, to |-> <<"\\", "t">>],
    [from |-> <<{"^"}, {"J"}>>, to |-> <<"\\", "P">>],
    [from |-> <<{"^"}, {"M"}>>, to |-> <<>>],
    [from |-> <<{"^"}, {" "}>>, to |-> <<"^">>],
    [from |-> <<{"%"}, {"%"}, {"c", "C"}>>, to |-> <<"Ø">>],
    [from |-> <<{"%"}, {"%"}, {"d", "D"}>>, to |-> <<"°">>],
    [from |-> <<{"%"}, {"%"}, {"p", "P"}>>, to |-> <<"±">>]>>

RECURSIVE Substituted(_, _)
Substituted(text, k) ==
  IF k = 0 THEN text
  ELSE ReplaceAll(Substituted(text, k - 1), Substitutions[k].from,
                  Substitutions[k].to)

HasEscape(text) ==
  \E k \in 1..Len(Substitutions), i \in 1..Len(text) :
    MatchAt(text, Substitutions[k].from, i)

----------------------------------------------------------------------------
(* C4: a text leaf with non-empty text and no formatting field, stack or    *)
(* paragraph converts to its text with the fixed substitutions applied and  *)
(* nothing added: no brace, no command token, no extra character; a text    *)
(* without any of the sequences comes back unchanged.  The letter of a      *)
(* percent sequence counts in either case, as the code matches it.          *)
C4_PlainTextOnlySubstituted ==
  (LeafConverted /\ IsPlain(Leaf)) =>
    /\ mtext = Substituted(LeafText, Len(Substitutions))
    /\ Len(mtext) <= Len(LeafText)
    /\ \A i \in 1..Len(mtext) : mtext[i] \notin {"{", "}", ";"}
    /\ ~HasEscape(LeafText) => mtext = LeafText

\* "^Ia" came back as "\ta".
C4_Witness ==
  /\ LeafConverted /\ IsPlain(Leaf)
  /\ LeafText = <<"^", "I", "a">>
  /\ mtext = <<"\\", "t", "a">>

----------------------------------------------------------------------------
(* C7: a text leaf carries the font token \f<family>|b<0|1>|i<0|1>; exactly *)
(* when its font family is set or bold is true or italic is true, each      *)
(* alone sufficing; family is font or Arial, the bold bit fontBold if       *)
(* defined else bold, the italic bit fontItalic if defined else italic.     *)
C7_FontTokenWhenAnySet ==
  LeafConverted =>
    LET wanted == TruthyStr(Leaf.font) \/ TruthyBool(Leaf.bold)
                  \/ TruthyBool(Leaf.italic)
        family == IF Leaf.font # None THEN Leaf.font[1] ELSE Arial
        b == IF TruthyBool(IF Leaf.fontBold # None THEN Leaf.fontBold
                           ELSE Leaf.bold) THEN "1" ELSE "0"
        i == IF TruthyBool(IF Leaf.fontItalic # None THEN Leaf.fontItalic
                           ELSE Leaf.italic) THEN "1" ELSE "0"
        token == <<"\\", "f">> \o family \o <<"|", "b", b, "|", "i", i, ";">>
    IN IF wanted THEN Contains(mtext, token)
       ELSE ~Contains(mtext, <<"\\", "f">>)

----------------------------------------------------------------------------
(* C8: each of color, rgbColor, height, width, tracking and slant gives its *)
(* own token (\C<n>; \c<rgb>; \H<n>; \W<n>; \T<n>x; \Q<n>;) exactly when    *)
(* the field is set, whatever its value (0 included) and whatever the       *)
(* other fields; an absent field gives nothing.                             *)
TokenIffSet(field, letter, value, suffix) ==
  IF field # None
  THEN Contains(mtext, <<"\\", letter>> \o NumToStr(value) \o suffix)
  ELSE ~Contains(mtext, <<"\\", letter>>)

ValueOf(field) == IF field = None THEN 0 ELSE field[1]

C8_TokenForEverySetField ==
  LeafConverted =>
    /\ TokenIffSet(Leaf.color, "C", ValueOf(Leaf.color), <<";">>)
    /\ TokenIffSet(Leaf.rgbColor, "c", ValueOf(Leaf.rgbColor) % RgbMask,
                   <<";">>)
    /\ TokenIffSet(Leaf.height, "H", ValueOf(Leaf.height), <<";">>)
    /\ TokenIffSet(Leaf.width, "W", ValueOf(Leaf.width), <<";">>)
    /\ TokenIffSet(Leaf.tracking, "T", ValueOf(Leaf.tracking), <<"x", ";">>)
    /\ TokenIffSet(Leaf.slant, "Q", ValueOf(Leaf.slant), <<";">>)

----------------------------------------------------------------------------
(* C9: a text leaf with at least one prefix token is one brace group, the   *)
(* tokens first, in the order \L \O \K \C \c \H \W \T \Q \f, then the text, *)
(* no closing codes; a leaf with only tracking = t set is                   *)
(* {\T<t>x;<escaped text>}; a leaf without token has no braces.  The text   *)
(* inside the group is the escaped text with the superscript / subscript    *)
(* wrappers, which are applied to the text and are not prefix tokens.       *)
TokenOrder == <<"L", "O", "K", "C", "c", "H", "W", "T", "Q", "f">>

\* The letters that follow a backslash, in order of appearance.
RECURSIVE CommandLetters(_)
CommandLetters(s) ==
  IF Len(s) < 2 THEN <<>>
  ELSE IF Head(s) = "\\" THEN <<s[2]>> \o CommandLetters(SubSeq(s, 3, Len(s)))
  ELSE CommandLetters(Tail(s))

RECURSIVE IsSubsequence(_, _)
IsSubsequence(a, b) ==
  IF a = <<>> THEN TRUE
  ELSE IF b = <<>> THEN FALSE
  ELSE IF Head(a) = Head(b) THEN IsSubsequence(Tail(a), Tail(b))
  ELSE IsSubsequence(a, Tail(b))

Count(s, ch) == Cardinality({i \in 1..Len(s) : s[i] = ch})

C9_OneBraceGroup ==
  LeafConverted =>
    LET codes == FormatCodes(Leaf)
        body == ScriptText(Substituted(LeafText, Len(Substitutions)), Leaf)
    IN /\ codes # <<>> =>
            /\ mtext = <<"{">> \o codes \o body \o <<"}">>
            /\ Count(mtext, "{") = 1 /\ Count(mtext, "}") = 1
            /\ IsSubsequence(CommandLetters(codes), TokenOrder)
       /\ (Leaf.tracking # None
           /\ Leaf = [Text(LeafText) EXCEPT !.tracking = Leaf.tracking]) =>
            mtext = <<"{", "\\", "T">> \o NumToStr(Leaf.tracking[1])
                    \o <<"x", ";">>
                    \o Substituted(LeafText, Len(Substitutions)) \o <<"}">>
       /\ codes = <<>> =>
            mtext = body /\ Count(mtext, "{") = 0 /\ Count(mtext, "}") = 0

----------------------------------------------------------------------------
(* Paragraph commands *)

Commanded == paragraph # None /\ cmd # None

\* The fields of the command for the observed record, in the fixed order:
\* indent, left, right, alignment (always there), tab stops.
FieldsInOrder(sep) ==
  LET p == paragraph[1]
      RECURSIVE Tabs(_)
      Tabs(t) == IF t = <<>> THEN <<>>
                 ELSE IF Len(t) = 1 THEN NumToStr(t[1])
                 ELSE NumToStr(t[1]) \o sep \o Tabs(Tail(t))
  IN (IF p.indent # None THEN <<<<"i">> \o NumToStr(p.indent[1])>> ELSE <<>>)
     \o (IF p.left # None THEN <<<<"l">> \o NumToStr(p.left[1])>> ELSE <<>>)
     \o (IF p.right # None THEN <<<<"r">> \o NumToStr(p.right[1])>> ELSE <<>>)
     \o <<IF p.align = None THEN <<"q", "l">>
          ELSE CASE p.align[1] = "left" -> <<"q", "l">>
                 [] p.align[1] = "right" -> <<"q", "r">>
                 [] p.align[1] = "center" -> <<"q", "c">>
                 [] p.align[1] = "justified" -> <<"q", "j">>
                 [] p.align[1] = "distributed" -> <<"q", "d">> >>
     \o (IF p.tabs # None /\ p.tabs[1] # <<>>
         THEN <<<<"t">> \o Tabs(p.tabs[1])>> ELSE <<>>)

RECURSIVE Join(_, _)
Join(ss, sep) ==
  IF ss = <<>> THEN <<>>
  ELSE IF Len(ss) = 1 THEN ss[1]
  ELSE ss[1] \o sep \o Join(Tail(ss), sep)

RECURSIVE WithoutCommas(_)
WithoutCommas(s) ==
  IF s = <<>> THEN <<>>
  ELSE (IF Head(s) = "," THEN <<>> ELSE <<Head(s)>>) \o WithoutCommas(Tail(s))

----------------------------------------------------------------------------
(* C5: whatever order the fields were set in on the record, the fields of   *)
(* the paragraph command come in the order indent (i), left (l), right (r), *)
(* alignment (q?), tab stops (t).                                           *)
C5_FixedFieldOrder ==
  Commanded =>
    WithoutCommas(cmd[1]) =
      <<"\\", "p">> \o Join(FieldsInOrder(<<>>), <<>>) \o <<";">>

\* All five fields, set in the reverse of the emitted order.
C5_Witness ==
  /\ Commanded
  /\ paragraph[1].order = <<"tabs", "align", "right", "left", "indent">>
  /\ paragraph[1].align = Some("center")
  /\ IsPrefix(<<"\\", "p", "i">>, cmd[1])

----------------------------------------------------------------------------
(* C6: for every combination of present and absent fields the command is    *)
(* \p, the emitted fields with exactly one comma between adjacent fields    *)
(* and between tab stops, no trailing comma, then ";"; the alignment field  *)
(* is always there and is ql when align is unset.                           *)
C6_CommaSeparated ==
  Commanded =>
    cmd[1] = <<"\\", "p">> \o Join(FieldsInOrder(<<",">>), <<",">>) \o <<";">>

----------------------------------------------------------------------------
(* Fractions, paragraphs and containers *)

IsSuffix(p, s) ==
  Len(p) <= Len(s) /\ SubSeq(s, Len(s) - Len(p) + 1, Len(s)) = p

StackObserved == Observed /\ node[1].stack # None

\* The divider of the observed fraction is the caret, given or by default.
CaretDivider ==
  node[1].stack[1].divider = None \/ node[1].stack[1].divider[1] = <<"^">>

\* The paragraph command of the observed node, if it has paragraph properties.
OwnParagraphCommand ==
  IF node[1].paragraph # None THEN ParagraphCommand(node[1].paragraph[1])
  ELSE <<>>

----------------------------------------------------------------------------
(* C11: the stack command of a node with stack set is \S<numerator>^        *)
(* <denominator>; with exactly one space after the caret when the divider   *)
(* is '^' or absent, and \S<numerator><divider><denominator>; with nothing  *)
(* inserted for any other divider.                                          *)
C11_CaretGetsOneSpace ==
  StackObserved =>
    LET st == node[1].stack[1]
    IN IF CaretDivider
       THEN IsSuffix(<<"\\", "S">> \o st.numerator \o <<"^", " ">>
                     \o st.denominator \o <<";">>, result[1].s)
       ELSE IsSuffix(<<"\\", "S">> \o st.numerator \o st.divider[1]
                     \o st.denominator \o <<";">>, result[1].s)

\* A fraction without divider came out with the caret and one space.
C11_Witness ==
  /\ StackObserved
  /\ node[1].stack[1].divider = None
  /\ result[1].s = <<"\\", "S", "1", "^", " ", "2", ";">>

----------------------------------------------------------------------------
(* C12: a node with stack set gives its paragraph command (if paragraph is  *)
(* set) and the stack command, nothing else, whatever its type, text,       *)
(* children, formatting and list context; of type li it gives no \P, no     *)
(* bullet or number, and the item after it gets the number it would have    *)
(* had without it.                                                          *)
C12_FractionLeafOnly ==
  /\ StackObserved =>
       /\ result[1].s =
            OwnParagraphCommand
            \o <<"\\", "S">> \o node[1].stack[1].numerator
            \o (IF CaretDivider THEN <<"^", " ">>
                ELSE node[1].stack[1].divider[1])
            \o node[1].stack[1].denominator \o <<";">>
       /\ result[1].oc = OlCounterOf(listContext)
       /\ ~Contains(result[1].s, <<"\\", "P">>)
       /\ ~Contains(result[1].s, <<"*", " ">>)
       /\ ~Contains(result[1].s, <<".", " ">>)
  /\ (InList /\ Parent.type = "ol" /\ IsListItem(node[1]) /\ index > 1
      /\ Children(Parent)[index - 1].stack # None) =>
       LiNumber(listContext[1]) = Rank(Children(Parent), index - 1) + 1

\* A fraction of type li with text, children, bold and paragraph set, second
\* child of an ordered list.
C12_Witness ==
  /\ StackObserved /\ InList /\ Parent.type = "ol" /\ index = 2
  /\ node[1].type = "li"
  /\ node[1].text # None /\ node[1].children # None /\ node[1].bold # None
  /\ node[1].paragraph # None
  /\ listContext[1].olCounter = <<2>>
  /\ result[1] = [s |-> <<"\\", "p", "q", "c", ";",
                          "\\", "S", "1", "^", " ", "2", ";">>,
                  oc |-> <<2>>]

----------------------------------------------------------------------------
(* C13: a node of type paragraph without stack gives its paragraph command  *)
(* (if paragraph is set), then its children serialized one after the        *)
(* other, then one \P that ends its output; also when its children are      *)
(* empty or absent.                                                         *)
C13_ParagraphEndsWithBreak ==
  (Observed /\ node[1].type = "paragraph" /\ node[1].stack = None) =>
    result[1].s =
      OwnParagraphCommand \o Convert(Children(node[1])) \o <<"\\", "P">>

----------------------------------------------------------------------------
(* C16: the formatting fields of a node that is not of type text have no    *)
(* effect on the output of convert: the forest converts to the same string  *)
(* as the forest with these fields removed from every such node, so every   *)
(* token comes from the fields of a text leaf.                              *)
RECURSIVE Unformatted(_)
Unformatted(ns) ==
  [i \in 1..Len(ns) |->
     LET kids == IF ns[i].children = None THEN None
                 ELSE Some(Unformatted(ns[i].children[1]))
         n == [ns[i] EXCEPT !.children = kids]
     IN IF n.type = "text" THEN n ELSE WithFormat(n, NoFormat)]

C16_ContainerFormatIgnored ==
  calls > 0 => mtext = Convert(Unformatted(nodes))

\* A forest with formatting fields on a container inside another container
\* with formatting fields was converted; the only token is the one of the
\* bold text leaf.
C16_Witness ==
  /\ calls > 0
  /\ Len(nodes) = 1
  /\ nodes[1].type = "paragraph"
  /\ nodes[1].tracking # None
  /\ nodes[1].children # None
  /\ nodes[1].children[1][1].type = "li"
  /\ nodes[1].children[1][1].underline # None
  /\ nodes[1].children[1][1].text = None
  /\ mtext = <<"\\", "P">> \o ApplyFormatting(<<"a">>, BoldA)
             \o <<"a", "a", "\\", "P">>

----------------------------------------------------------------------------
(* The parser *)

ElementParsed(tags) ==
  /\ domNode # None
  /\ domNode[1].nodeType = "element"
  /\ domNode[1].tagName \in tags

\* The node that the observed parseNode call returned.
ParsedNode == parsed[1][1]

----------------------------------------------------------------------------
(* C14: the align of a <p> comes from the raw style string when the         *)
(* pattern finds a text-align value there, whatever the style object and    *)
(* the align attribute say; without such a match a recognized textAlign of  *)
(* the style object wins over the attribute; justify is stored as           *)
(* justified.                                                               *)
AlignNames == {"left", "right", "center", "justify"}

StoredAs(word) == IF word = "justify" THEN "justified" ELSE word

\* The recognized word the observed element carries in its raw style string
\* (as the table of style attributes has it), in its style object and in
\* its align attribute; a set with one word or none.
RawAlign ==
  {w \in AlignNames :
     \E st \in AlignStyles : /\ domNode[1].styleAttr = Some(Chars(st.raw))
                             /\ st.match = w}
StyleAlign == {w \in AlignNames : domNode[1].style.textAlign = Chars(w)}
AttrAlign == {w \in AlignNames : domNode[1].align = Some(Chars(w))}

C14_RawStyleStringWins ==
  ElementParsed({"P"}) =>
    /\ \A w \in RawAlign : ParsedNode.paragraph[1].align = Some(StoredAs(w))
    /\ RawAlign = {} =>
         \A w \in StyleAlign : ParsedNode.paragraph[1].align = Some(StoredAs(w))
    /\ ParsedNode.paragraph[1].align # Some("justify")

\* The attribute, the style object and the raw string carry three different
\* recognized values; the stored align is the one of the raw string.
C14_Witness ==
  /\ ElementParsed({"P"})
  /\ AttrAlign = {"center"}
  /\ StyleAlign = {"left"}
  /\ RawAlign = {"justify"}
  /\ ParsedNode.paragraph[1].align = Some("justified")

----------------------------------------------------------------------------
(* C15: a text node of the parser's output has, for every formatting field, *)
(* the value of the nearest enclosing paragraph or generic element that     *)
(* sets the field, and lacks the field when none sets it; the node of a     *)
(* generic element has the fields the element sets itself and no other.     *)
SetsFormat(el) == el.tagName \notin {"OL", "UL", "LI", "BR"}

RECURSIVE Nearest(_, _)
Nearest(path, f) ==
  IF path = <<>> THEN None
  ELSE LET el == path[Len(path)]
       IN IF SetsFormat(el) /\ ExtractFormatting(el)[f] # None
          THEN ExtractFormatting(el)[f]
          ELSE Nearest(SubSeq(path, 1, Len(path) - 1), f)

C15_NearestAncestorSets ==
  /\ (domNode # None /\ domNode[1].nodeType = "text") =>
       \A f \in FormatFields : ParsedNode[f] = Nearest(ancestors, f)
  /\ (domNode # None /\ domNode[1].nodeType = "element"
      /\ domNode[1].tagName \notin {"OL", "UL", "LI", "BR", "P"}) =>
       \A f \in FormatFields :
         ParsedNode[f] = Nearest(<<domNode[1]>>, f)

\* A text in an element that sets the font, inside another element that
\* sets another font: the text has the inner font.
C15_Witness ==
  /\ domNode # None /\ domNode[1].nodeType = "text"
  /\ Len(ancestors) = 2
  /\ ExtractFormatting(ancestors[1])["font"] = Some(Chars("Kai"))
  /\ ExtractFormatting(ancestors[2])["font"] = Some(Chars("Hei"))
  /\ ParsedNode.font = Some(Chars("Hei"))
  /\ ParsedNode.text = Some(<<"a">>)

----------------------------------------------------------------------------
(* C19: a numeric style value that is no number, with or without an em, px  *)
(* or pt suffix, or a number with a unit other than these, leaves its field *)
(* (tracking, paragraph indent, left, right) unset: the field is never 0,   *)
(* NaN or a number read from the value.                                     *)

\* Digits, then nothing or one of the units em, px, pt.
WellFormed(value) ==
  LET t == Trim(value)
      k == DigitsEnd(t, 1)
  IN /\ k >= 1
     /\ SubSeq(t, k + 1, Len(t)) \in {<<>>, Chars("em"), Chars("px"), Chars("pt")}

\* The field of the parsed node that a property sets.
FieldFor(property) ==
  CASE property = "text-indent" -> ParsedNode.paragraph[1].indent
    [] property = "margin-left" -> ParsedNode.paragraph[1].left
    [] property = "margin-right" -> ParsedNode.paragraph[1].right
    [] property = "letter-spacing" -> ParsedNode.tracking

C19_MalformedValueLeavesUnset ==
  \A pr \in LengthProperties \cup {"letter-spacing"}, v \in LengthValues :
    (/\ ElementParsed({"P", "SPAN"})
     /\ domNode[1].styleAttr = Some(Chars(Declaration(pr, v.raw)))
     /\ ~WellFormed(Chars(v.raw))) =>
      FieldFor(pr) = None

----------------------------------------------------------------------------
(* Parse, then serialize *)

\* The handler of Change has run on the content the editor holds.
Changed ==
  /\ rendered # <<>>
  /\ rendered[Len(rendered)].event = "Change"
  /\ rendered[Len(rendered)].html = content

\* The content is <b>s</b>, with nothing else on the element.
IsBoldDoc(doc) ==
  /\ Len(doc) = 1
  /\ doc[1] = Element("B", doc[1].childNodes)
  /\ Len(doc[1].childNodes) <= 1
  /\ \A i \in 1..Len(doc[1].childNodes) :
       doc[1].childNodes[i] = TextNode(doc[1].childNodes[i].textContent)

\* The s of <b>s</b>.
BoldString(doc) ==
  IF doc[1].childNodes = <<>> THEN <<>> ELSE doc[1].childNodes[1].textContent

\* {\fArial|b1|i0;s}
BoldGroup(s) == Chars("{\\fArial|b1|i0;") \o s \o <<"}">>

\* s with every non-breaking space as a space.
Spaced(s) == [i \in 1..Len(s) |-> IF s[i] = Nbsp THEN " " ELSE s[i]]

----------------------------------------------------------------------------
----------------------------------------------------------------------------
(* C18 *)

\* The content is <p style="text-align:a"><b>s</b></p>.
IsAlignedBoldDoc(doc, a) ==
  /\ Len(doc) = 1
  /\ doc[1].tagName = "P"
  /\ IsBoldDoc(doc[1].childNodes)
  /\ doc = AlignedBoldDoc(a, BoldString(doc[1].childNodes))

\* The paragraph command of a text-align value.
AlignCommand(a) ==
  CASE a = "left" -> Chars("\\pql;") [] a = "right" -> Chars("\\pqr;")
    [] a = "center" -> Chars("\\pqc;") [] a = "justify" -> Chars("\\pqj;")

----------------------------------------------------------------------------
(* C20: every Change event stores convert(htmlToTinyMceNodes(content)) in   *)
(* mtext and makes one renderMText call with that string; a change of the   *)
(* checkbox makes a renderMText call with the mtext stored by the latest    *)
(* Change event, the empty string before the first, and converts nothing.   *)
IsChange(i) == rendered[i].event = "Change"

\* The string stored by the latest Change event among the first i events.
RECURSIVE StoredAfter(_)
StoredAfter(i) ==
  IF i = 0 THEN <<>>
  ELSE IF IsChange(i) THEN rendered[i].args.content
  ELSE StoredAfter(i - 1)

C20_ChangeConvertsCheckboxReuses ==
  /\ \A i \in 1..Len(rendered) :
       IF IsChange(i)
       THEN rendered[i].args.content =
              Convert(HtmlToTinyMceNodes(rendered[i].html))
       ELSE rendered[i].args.content = StoredAfter(i - 1)
  /\ mtext = StoredAfter(Len(rendered))
  /\ Cardinality({i \in 1..Len(rendered) : IsChange(i)}) = calls
  /\ Len(returned) = calls

\* The checkbox before any Change event, a Change event, an edit, and the
\* checkbox again: the string of the Change event is rendered, not the one
\* of the edited content.
C20_Witness ==
  /\ Len(rendered) = 3
  /\ ~IsChange(1) /\ rendered[1].args.content = <<>>
  /\ IsChange(2) /\ rendered[2].args.content # <<>>
  /\ ~IsChange(3) /\ rendered[3].html # rendered[2].html
  /\ rendered[3].args.content = rendered[2].args.content
  /\ rendered[3].args.content # Convert(HtmlToTinyMceNodes(rendered[3].html))

----------------------------------------------------------------------------
(* C22: for a <p> whose style object and raw style string both give a      *)
(* parseable value for text-indent, margin-left or margin-right, the two   *)
(* being different, the value of the raw style string is the one stored in *)
(* paragraph.indent / left / right.                                        *)

\* The row of the table of repeated declarations the observed <p> carries.
Repeated(d) ==
  /\ ElementParsed({"P"})
  /\ domNode[1].styleAttr = Some(Chars(d.raw))

C22_RawLengthWins ==
  \A d \in RepeatedLengths :
    (Repeated(d) /\ d.rawValue # d.styleValue) =>
      FieldFor(d.property) = Some(d.rawValue)

----------------------------------------------------------------------------
(* C23: the defaults of the marker classes (tracking 10 for letterspacing, *)
(* width 1 for letterwidth) are applied only when the element has the      *)
(* class and no inline value was parsed for the property; a parsed inline  *)
(* letter-spacing or scaleX value is kept whatever it is, 0 included.      *)

\* The observed element is the span of the table of marker classes with
\* this class name, letter-spacing and transform.
Marked(c, t, w) ==
  /\ ElementParsed({"SPAN"})
  /\ domNode[1].className = Chars(c)
  /\ domNode[1].style.letterSpacing = Chars(t.reads)
  /\ domNode[1].style.transform = Chars(w.reads)
  /\ domNode[1].style = [NoStyle EXCEPT !.letterSpacing = Chars(t.reads),
                                        !.transform = Chars(w.reads)]

\* The value the claim gives a field: the inline value if one was parsed,
\* else the default if the element has the class, else none.
InlineOrDefault(inline, hasClass, default) ==
  IF inline # None THEN inline
  ELSE IF hasClass THEN Some(default)
  ELSE None

C23_InlineValueKept ==
  \A c \in ClassNames, t \in InlineTrackings, w \in InlineWidths :
    Marked(c, t, w) =>
      /\ ParsedNode.tracking =
           InlineOrDefault(t.value, c \in {"letterspacing",
                                            "letterspacing letterwidth"},
                           10)
      /\ ParsedNode.width =
           InlineOrDefault(w.value, c \in {"letterwidth",
                                            "letterspacing letterwidth"},
                           1)

----------------------------------------------------------------------------
(* C24: every node of the parser's output has the shape of its type: a     *)
(* text node has text and no children; a br node has no text, no children  *)
(* and no formatting; ol, ul and li nodes have children and no text,       *)
(* formatting or paragraph field; the paragraph field is on paragraph      *)
(* nodes only; every other node has children and no text.                  *)
Unformatted1(n) == \A f \in FormatFields : n[f] = None

ShapeOk(n) ==
  /\ n.type = "text" => (n.text # None /\ n.children = None)
  /\ n.type = "br" => (n.text = None /\ n.children = None /\ Unformatted1(n))
  /\ n.type \in {"ol", "ul", "li"} =>
       (n.children # None /\ n.text = None /\ Unformatted1(n)
        /\ n.paragraph = None)
  /\ n.paragraph # None => n.type = "paragraph"
  /\ n.type \notin {"text", "br"} => (n.children # None /\ n.text = None)

C24_ShapeInvariants ==
  parsed # None => \A i \in 1..Len(parsed[1]) : ShapeOk(parsed[1][i])

----------------------------------------------------------------------------
(* C25: for all channels r, g, b in 0..255 the parser stores                *)
(* rgbColor = 65536 r + 256 g + b for rgb(r, g, b), and the same number     *)
(* for #rrggbb, a number of 0..16777215; the \c token of the serializer     *)
(* carries rgbColor modulo 2^24, a number of 0..16777215 whatever rgbColor  *)
(* holds.                                                                   *)
Packed(r, g, b) == 65536 * r + 256 * g + b

\* The observed parseNode call was made on <span style="color: ...">.
ColorParsed(color) ==
  /\ ElementParsed({"SPAN"})
  /\ domNode[1].style.color = color

\* v modulo 2^24, in 0..2^24 - 1
Mod24(v) == ((v % 16777216) + 16777216) % 16777216

C25_RgbPackedAndMasked ==
  /\ \A r \in Channels, g \in Channels, b \in Channels :
       (ColorParsed(RgbNotation(r, g, b)) \/ ColorParsed(HexNotation(r, g, b)))
         => /\ ParsedNode.rgbColor = Some(Packed(r, g, b))
            /\ ParsedNode.rgbColor[1] \in 0..16777215
  /\ (LeafConverted /\ Leaf.rgbColor # None /\ Leaf.rgbColor[1] # 0) =>
       /\ mtext = Chars("{\\c") \o NumToStr(Mod24(Leaf.rgbColor[1]))
                  \o Chars(";") \o LeafText \o Chars("}")
       /\ Mod24(Leaf.rgbColor[1]) \in 0..16777215

\* #ff8000 was parsed to 16744448, the number of rgb(255, 128, 0).
C25_Witness ==
  /\ ColorParsed(Chars("#ff8000"))
  /\ ParsedNode.rgbColor = Some(16744448)
  /\ Packed(255, 128, 0) = 16744448

----------------------------------------------------------------------------
(* C26 *)

\* The caret sequences ^I, ^J, ^M and the percent sequences %%c, %%d, %%p
\* in either case.
CaretSequences == {<<{"^"}, {"I"}>>, <<{"^"}, {"J"}>>, <<{"^"}, {"M"}>>}
PercentSequences ==
  {<<{"%"}, {"%"}, {"c", "C"}>>, <<{"%"}, {"%"}, {"d", "D"}>>,
   <<{"%"}, {"%"}, {"p", "P"}>>}

HasSequence(text, sequences) ==
  \E pat \in sequences, i \in 1..Len(text) : MatchAt(text, pat, i)

(* C26, as stated: for every input text the output of the escaping step    *)
(* contains none of ^I, ^J, ^M, %%c, %%d, %%p (either case), one formed    *)
(* while earlier substitutions were applied included.                      *)
C26_NoSequenceRemains ==
  (LeafConverted /\ IsPlain(Leaf)) =>
    ~HasSequence(mtext, CaretSequences \cup PercentSequences)

(* C26, amended: for every input text the output of the escaping step      *)
(* contains none of %%c, %%d, %%p (either case); it contains none of ^I,   *)
(* ^J, ^M when the input holds neither ^M nor a caret followed by a space. *)
C26_NoPercentSequenceRemains ==
  (LeafConverted /\ IsPlain(Leaf)) =>
    /\ ~HasSequence(mtext, PercentSequences)
    /\ ~HasSequence(LeafText, {<<{"^"}, {"M"}>>, <<{"^"}, {" "}>>}) =>
         ~HasSequence(mtext, CaretSequences)

\* "%%D" came back as the degree sign.
C26_Witness ==
  /\ LeafConverted /\ IsPlain(Leaf)
  /\ LeafText = <<"%", "%", "D">>
  /\ mtext = <<"°">>

----------------------------------------------------------------------------
(* C30: a br node adds nothing to the serialized string: convert returns   *)
(* for a forest what it returns for the forest with every br node removed, *)
(* at top level, in a paragraph, in a list container and in a list item;   *)
(* the call on a br returns the empty string and leaves the counter of the *)
(* enclosing ol as it was.                                                 *)
RECURSIVE WithoutBr(_)
WithoutBr(ns) ==
  IF ns = <<>> THEN <<>>
  ELSE (IF Head(ns).type = "br" THEN <<>>
        ELSE <<IF Head(ns).children = None THEN Head(ns)
               ELSE [Head(ns) EXCEPT
                       !.children = Some(WithoutBr(Head(ns).children[1]))]>>)
       \o WithoutBr(Tail(ns))

C30_BrAddsNothing ==
  /\ calls > 0 => mtext = Convert(WithoutBr(nodes))
  /\ (node # None /\ node[1].type = "br") =>
       /\ result[1].s = <<>>
       /\ result[1].oc = OlCounterOf(listContext)

\* A br between the two items of an ordered list: the items are numbered 1
\* and 2.
C30_Witness ==
  /\ calls > 0
  /\ nodes = <<List("ol", <<Li(<<TextA>>), Br, Li(<<TextA>>)>>)>>
  /\ mtext = Chars("\\P1. a\\P2. a")

----------------------------------------------------------------------------
(* The renderer *)

MTextsInScene == {o \in scene : o.kind = "MText"}
LinesInScene == {o \in scene : o.kind = "LineSegments"}

\* Calls were made and none of them waits for its fonts.
AllCompleted ==
  /\ renderCalls # <<>>
  /\ \A k \in 1..Len(renderCalls) : renderCalls[k].pc # "loading"

\* The call made last.
LastCall == Len(rendered)

----------------------------------------------------------------------------
(* C21: when loading the required fonts fails inside renderMText, the      *)
(* error is reported and swallowed: the call goes on, creates its MText,   *)
(* adds it to the scene, makes it currentMText and resolves; no call       *)
(* rejects.                                                                *)
C21_FontErrorSwallowed ==
  [][\A k \in 1..Len(renderCalls) :
       (renderCalls[k].pc = "loading" /\ renderCalls'[k].pc # "loading") =>
         /\ renderCalls'[k].pc = "resolved"
         /\ currentMText' = Some(k)
         /\ MTextObject(k) \in scene'
         /\ rendered[k].args.isDrawTextBox =>
              frames' = Append(frames, [call |-> k,
                                        width |-> rendered[k].args.width])]_vars

\* The font load of a call failed; the call has resolved and its MText is
\* the current one, in the scene.
C21_Witness ==
  \E k \in 1..Len(renderCalls) :
    /\ renderCalls[k].error
    /\ renderCalls[k].pc = "resolved"
    /\ currentMText = Some(k)
    /\ MTextObject(k) \in scene

----------------------------------------------------------------------------
(* C27: under any interleaving of overlapping renderMText calls, once all  *)
(* calls have completed the scene holds at most one MText, and that one is *)
(* currentMText; no MText of an earlier call stays in the scene.           *)
C27_OneMTextInScene ==
  AllCompleted =>
    /\ Cardinality(MTextsInScene) <= 1
    /\ \A o \in MTextsInScene : currentMText = Some(o.call)

----------------------------------------------------------------------------
(* C28: whatever the order in which the font loads of overlapping calls    *)
(* end, once all calls have completed the MText in currentMText, shown in  *)
(* the scene, has the content of the renderMText call issued last.         *)
C28_LatestContentShown ==
  AllCompleted =>
    /\ currentMText # None
    /\ MTextObject(currentMText[1]) \in scene
    /\ rendered[currentMText[1]].args.content = rendered[LastCall].args.content

----------------------------------------------------------------------------
(* C29: after a renderMText call with isDrawTextBox false has completed    *)
(* and every animation-frame callback of the earlier calls has run, the    *)
(* scene holds no text-box lines; and at every moment the scene holds at   *)
(* most one text-box lines object, drawn around the MText that is in the   *)
(* scene.                                                                  *)
C29_TextBoxFollowsOption ==
  /\ (AllCompleted /\ frames = <<>>
      /\ ~rendered[LastCall].args.isDrawTextBox) => LinesInScene = {}
  /\ Cardinality(LinesInScene) <= 1
  /\ \A l \in LinesInScene :
       /\ MTextObject(l.box) \in scene
       /\ currentMText = Some(l.box)

====
